---- MODULE Spec2Model ----
(***************************************************************************)
(* Command line argument parser (over9000::cmd_line_args::Parser).         *)
(*                                                                         *)
(* Two generations of the header are modelled side by side:                *)
(*   impl = "error"   the Error-based parser   (src/unnamed/part_001)      *)
(*   impl = "fluent"  the fluent-API parser    (src/over9000/.../parser.h) *)
(*                                                                         *)
(* Text (names, tokens, values) is a sequence of one-character strings,    *)
(* so that size(), operator[], find('=') and erase() are real operations.  *)
(***************************************************************************)
EXTENDS Integers, Sequences, FiniteSets, TLC

VARIABLES
    impl,                \* which header the program is compiled against
    charIsSigned,        \* whether plain char is a signed type in this build
    namedParams,         \* Parser::namedParams_       (registration order)
    positionalParams,    \* Parser::positionalParams_  (registration order)
    paramsByShortName,   \* Parser::paramsByShortName_ (char -> Param*)
    paramsByLongName,    \* Parser::paramsByLongName_  (string -> Param*)
    store,               \* the caller-owned variables the descriptors point to
    regError,            \* what the last registration statement threw ("" if nothing)
    pc,                  \* "idle" | "scan" (inside the argv loop) | "done"
    argv,                \* argv[1..] consumed so far by the running parse()
    currentPositionalPos,\* parse() local
    currentNamedParam,   \* parse() local (a Param* or NULL)
    error,               \* what parse() threw
    trace,               \* per consumed token: which branch of the loop took it
    heldAtCall,          \* what the caller's variables held when parse() was called
    exeName_,            \* Parser::exeName_
    output               \* what the last print call wrote to the caller's stream

vars == <<impl, charIsSigned, namedParams, positionalParams, paramsByShortName, paramsByLongName,
          store, regError, pc, argv, currentPositionalPos, currentNamedParam,
          error, trace, heldAtCall, exeName_, output>>

registryVars == <<namedParams, positionalParams, paramsByShortName, paramsByLongName>>

-----------------------------------------------------------------------------
(* Bounds of the model                                                     *)

MaxArgs == 3
MaxNamed == 2
MaxPositional == 2

-----------------------------------------------------------------------------
(* Basic vocabulary                                                        *)

Impls == {"error", "fluent"}

NUL == "NUL"

REQUIRED == "REQUIRED"
OPTIONAL == "OPTIONAL"

\* In a statement of the fluent API: .flag() is chained to the call.
FLAG == "FLAG"

NULL == [seq |-> "none", idx |-> 0]

NamedRef(i) == [seq |-> "named", idx |-> i]

PositionalRef(i) == [seq |-> "positional", idx |-> i]

\* What parse() throws: the message's leading words, the parameter and the
\* token streamed into it, and the valid values parseArg appends to it.
NoError == [msg |-> "", param |-> NULL, arg |-> <<>>, valid |-> <<>>]

Thrown(msg, ref, arg) == [msg |-> msg, param |-> ref, arg |-> arg, valid |-> <<>>]

\* A char above 127: static_cast<char>(byte) is byte - 256 where plain char is
\* signed and byte where it is unsigned.
HighChar(byte) == IF charIsSigned THEN byte - 256 ELSE byte

\* The value of a char in a comparison, for the characters the model uses
\* ("SOH" is '\1', "DEL" is '\177', "x80" and "xFF" are static_cast<char>(128)
\* and static_cast<char>(255)).
CharCode(c) ==
    CASE c = "SOH" -> 1
      [] c = "\n" -> 10
      [] c = "!"  -> 33
      [] c = "DEL" -> 127
      [] c = "x80" -> HighChar(128)
      [] c = "xFF" -> HighChar(255)
      [] c = " "  -> 32
      [] c = "-"  -> 45
      [] c = "0"  -> 48
      [] c = "1"  -> 49
      [] c = "="  -> 61
      [] c = "a"  -> 97
      [] c = "b"  -> 98
      [] c = "d"  -> 100
      [] c = "f"  -> 102
      [] c = "g"  -> 103
      [] c = "h"  -> 104
      [] c = "i"  -> 105
      [] c = "l"  -> 108
      [] c = "m"  -> 109
      [] c = "n"  -> 110
      [] c = "o"  -> 111
      [] c = "w"  -> 119
      [] c = "x"  -> 120
      [] OTHER    -> 122

Min(a, b) == IF a < b THEN a ELSE b

\* std::string::find(c): the 1-based position of the first c, 0 for npos.
Find(s, c) ==
    IF \E i \in 1..Len(s) : s[i] = c
    THEN CHOOSE i \in 1..Len(s) : s[i] = c /\ \A j \in 1..(i - 1) : s[j] # c
    ELSE 0

\* std::string::erase(0, n) and erase(pos) on a copy.
EraseFront(s, n) == SubSeq(s, Min(n, Len(s)) + 1, Len(s))

EraseFrom(s, pos) == SubSeq(s, 1, pos - 1)

-----------------------------------------------------------------------------
(* Converter subsystem: the stream after stream.str(arg); stream.clear();  *)
(* converter(stream, value).  Each conversion yields the value now stored, *)
(* and the stream's failbit and eofbit.  `prior` is what the target held.  *)

IsSpace(c) == c \in {" ", "\n"}

DigitValue(c) ==
    CASE c = "0" -> 0 [] c = "1" -> 1 [] c = "2" -> 2 [] c = "3" -> 3 [] c = "4" -> 4
      [] c = "5" -> 5 [] c = "6" -> 6 [] c = "7" -> 7 [] c = "8" -> 8 [] OTHER -> 9

IsDigit(c) == c \in {"0", "1", "2", "3", "4", "5", "6", "7", "8", "9"}

RECURSIVE DigitsValue(_)
DigitsValue(s) ==
    IF s = <<>> THEN 0
    ELSE 10 * DigitsValue(SubSeq(s, 1, Len(s) - 1)) + DigitValue(s[Len(s)])

\* The first position at or after `from` whose character does not satisfy the
\* run (Len(s) + 1 when the run reaches the end of the text).
RECURSIVE SpaceRunEnd(_, _)
SpaceRunEnd(s, from) ==
    IF from > Len(s) \/ ~IsSpace(s[from]) THEN from ELSE SpaceRunEnd(s, from + 1)

RECURSIVE DigitRunEnd(_, _)
DigitRunEnd(s, from) ==
    IF from > Len(s) \/ ~IsDigit(s[from]) THEN from ELSE DigitRunEnd(s, from + 1)

\* Converter<std::basic_string<Char>>: std::getline(stream, value).
ConvertString(arg, prior) ==
    LET nl == Find(arg, "\n")
    IN  IF arg = <<>>
        THEN [value |-> <<>>, fail |-> TRUE, eof |-> TRUE]
        ELSE IF nl = 0
        THEN [value |-> arg, fail |-> FALSE, eof |-> TRUE]
        ELSE [value |-> SubSeq(arg, 1, nl - 1), fail |-> FALSE, eof |-> FALSE]

\* std::numeric_limits<int>::max() and min().
IntMax == 2147483647

IntMin == (-IntMax) - 1

\* The digits of a run from its first non-zero digit on.
RECURSIVE Significant(_)
Significant(s) ==
    IF s = <<>> \/ s[1] # "0" THEN s ELSE Significant(Tail(s))

\* |IntMax| and |IntMin| in decimal digits.
LimitDigits(negative) ==
    <<"2", "1", "4", "7", "4", "8", "3", "6", "4", IF negative THEN "8" ELSE "7">>

\* The digit run denotes a magnitude that an int of that sign cannot hold.
OutOfRange(digits, negative) ==
    LET d == Significant(digits)
        limit == LimitDigits(negative)
    IN  \/ Len(d) > Len(limit)
        \/ /\ Len(d) = Len(limit)
           /\ \E i \in 1..Len(d) :
                  /\ DigitValue(d[i]) > DigitValue(limit[i])
                  /\ \A k \in 1..(i - 1) : d[k] = limit[k]

\* Faulty variant: the extraction does not skip leading whitespace.
ConvertIntNoSkipWs(arg, prior) ==
    LET signed == arg # <<>> /\ arg[1] \in {"-", "+"}
        i1 == IF signed THEN 2 ELSE 1
        j == DigitRunEnd(arg, i1)
    IN  IF arg = <<>>
        THEN [value |-> prior, fail |-> TRUE, eof |-> TRUE]
        ELSE IF j = i1 \/ OutOfRange(SubSeq(arg, i1, j - 1), signed /\ arg[1] = "-")
        THEN [value |-> 0, fail |-> TRUE, eof |-> j > Len(arg)]
        ELSE [value |-> IF signed /\ arg[1] = "-"
                        THEN -DigitsValue(SubSeq(arg, i1, j - 1))
                        ELSE DigitsValue(SubSeq(arg, i1, j - 1)),
              fail |-> FALSE, eof |-> j > Len(arg)]

\* Converter<int>: stream >> value (skipws, optional sign, decimal digits; a
\* magnitude out of range stores the nearest limit and sets failbit).
ConvertInt(arg, prior) ==
    LET i0 == SpaceRunEnd(arg, 1)
        signed == i0 <= Len(arg) /\ arg[i0] \in {"-", "+"}
        i1 == IF signed THEN i0 + 1 ELSE i0
        j == DigitRunEnd(arg, i1)
        negative == signed /\ arg[i0] = "-"
    IN  IF i0 > Len(arg)
        THEN [value |-> prior, fail |-> TRUE, eof |-> TRUE]
        ELSE IF j = i1
        THEN [value |-> 0, fail |-> TRUE, eof |-> i1 > Len(arg)]
        ELSE IF OutOfRange(SubSeq(arg, i1, j - 1), negative)
        THEN [value |-> IF negative THEN IntMin ELSE IntMax,
              fail |-> TRUE, eof |-> j > Len(arg)]
        ELSE [value |-> IF negative
                        THEN -DigitsValue(SubSeq(arg, i1, j - 1))
                        ELSE DigitsValue(SubSeq(arg, i1, j - 1)),
              fail |-> FALSE, eof |-> j > Len(arg)]

\* Converter<bool>: stream >> value without boolalpha (0 -> false, 1 -> true,
\* anything else -> true with failbit).
ConvertBool(arg, prior) ==
    LET n == ConvertInt(arg, 0)
    IN  IF SpaceRunEnd(arg, 1) > Len(arg)
        THEN [value |-> prior, fail |-> TRUE, eof |-> TRUE]
        ELSE IF ~n.fail /\ n.value \in {0, 1}
        THEN [value |-> n.value = 1, fail |-> FALSE, eof |-> n.eof]
        ELSE [value |-> TRUE, fail |-> TRUE, eof |-> n.eof]

\* The literals of the caller's enumeration, as the initializer list of the
\* registration statement gives them: {{"low", LOW}, {"high", HIGH}}.  (An
\* enumerator is written as the one-element text of its name.)
EnumValues ==
    << << <<"l", "o", "w">>, <<"LOW">> >>, << <<"h", "i", "g", "h">>, <<"HIGH">> >> >>

\* std::less<std::string>: lexicographic by character.
RECURSIVE Less(_, _)
Less(a, b) ==
    IF b = <<>> THEN FALSE
    ELSE IF a = <<>> THEN TRUE
    ELSE IF CharCode(Head(a)) # CharCode(Head(b)) THEN CharCode(Head(a)) < CharCode(Head(b))
    ELSE Less(Tail(a), Tail(b))

\* Faulty variant: the keys in the order of the initializer list.
InDeclaredOrder(keys) ==
    SelectSeq([i \in 1..Len(EnumValues) |-> EnumValues[i][1]], LAMBDA k : k \in keys)

\* The keys of a std::map<std::string, T> in iteration order.
RECURSIVE InOrder(_)
InOrder(keys) ==
    IF keys = {} THEN <<>>
    ELSE LET first == CHOOSE k \in keys : \A o \in keys \ {k} : Less(k, o)
         IN  <<first>> \o InOrder(keys \ {first})

\* EnumConverter::values, built from the initializer list.
EnumKeys == {EnumValues[i][1] : i \in 1..Len(EnumValues)}

EnumValueOf(key) == (CHOOSE i \in 1..Len(EnumValues) : EnumValues[i][1] = key)

\* EnumConverter::operator(): std::getline, then values.find; failbit when
\* the text read is not a key.
ConvertEnum(arg, prior) ==
    LET read == ConvertString(arg, prior)
    IN  IF read.value \in EnumKeys
        THEN [value |-> EnumValues[EnumValueOf(read.value)][2],
              fail |-> read.fail, eof |-> read.eof]
        ELSE [value |-> prior, fail |-> TRUE, eof |-> read.eof]

\* EnumConverter::getValidValues from the key at position i on: the keys in
\* map order, ", " between them.
RECURSIVE ValidValuesFrom(_, _)
ValidValuesFrom(keys, i) ==
    IF i > Len(keys) THEN <<>>
    ELSE (IF i = 1 THEN <<>> ELSE <<",", " ">>) \o keys[i] \o ValidValuesFrom(keys, i + 1)

\* Converter::getValidValues
GetValidValues(conv) ==
    IF conv = "enum" THEN ValidValuesFrom(InOrder(EnumKeys), 1) ELSE <<>>

Convert(conv, arg, prior) ==
    CASE conv = "string" -> ConvertString(arg, prior)
      [] conv = "int"    -> ConvertInt(arg, prior)
      [] conv = "enum"   -> ConvertEnum(arg, prior)
      [] OTHER           -> ConvertBool(arg, prior)

\* What the local `T value;` of the list parse() may hold before conversion:
\* a default-constructed string, an indeterminate number.
Indeterminate(conv) ==
    CASE conv = "string" -> {<<>>}
      [] conv = "int"    -> {0, 1}
      [] conv = "enum"   -> {EnumValues[i][2] : i \in 1..Len(EnumValues)}
      [] OTHER           -> {FALSE, TRUE}

-----------------------------------------------------------------------------
(* Parameter registry.  A registry value R collects the four containers of *)
(* the Parser; a registration operator returns the registry it leaves      *)
(* behind and what it threw.                                               *)

Registry == [named |-> namedParams, positional |-> positionalParams,
             byShort |-> paramsByShortName, byLong |-> paramsByLongName]

EmptyRegistry == [named |-> <<>>, positional |-> <<>>, byShort |-> <<>>, byLong |-> <<>>]

\* std::map / std::unordered_map as a sequence of <<key, Param*>> pairs with
\* distinct keys: find() and emplace().
MapHas(m, k) == \E i \in 1..Len(m) : m[i][1] = k

MapGet(m, k) == m[CHOOSE i \in 1..Len(m) : m[i][1] = k][2]

MapFind(m, k) == IF MapHas(m, k) THEN MapGet(m, k) ELSE NULL

MapEmplace(m, k, ref) == IF MapHas(m, k) THEN m ELSE Append(m, <<k, ref>>)

MapKeys(m) == {m[i][1] : i \in 1..Len(m)}

DerefIn(R, ref) ==
    IF ref.seq = "named" THEN R.named[ref.idx] ELSE R.positional[ref.idx]

\* details::Param as constructed by a registration call: index_ = 0,
\* parsed_ = false; isList and conv stand for the ParamImpl instantiation,
\* value_ names the caller's variable.
\* The help text the caller passes with every registration.
HelpText == <<"H", "e", "l", "p">>

NewParam(call, shortName, optional, flag) ==
    [longName_ |-> call.longName, shortName_ |-> shortName, help_ |-> HelpText, index_ |-> 0,
     optional_ |-> optional, flag_ |-> flag, parsed_ |-> FALSE,
     isList |-> call.isList, conv |-> call.conv, value_ |-> call.var]

Ok(R) == [R |-> R, err |-> ""]

Throws(R, msg) == [R |-> R, err |-> msg]

-------- \* Error-based parser

\* Param::Param: rejects a short name at or below ' '.
BadShortNameCtor(shortName) == shortName # NUL /\ CharCode(shortName) <= CharCode(" ")

\* Faulty variant: the long name is not looked up before it is inserted.
AddParamNoLongNameCheck(R, param) ==
    IF Len(param.longName_) < 2
    THEN Throws(R, "Too short long name parameter")
    ELSE IF param.shortName_ # NUL /\ MapHas(R.byShort, param.shortName_)
    THEN Throws(R, "Repeated parameter short name")
    ELSE LET ref == NamedRef(Len(R.named) + 1)
         IN  Ok([R EXCEPT
                    !.byShort = IF param.shortName_ # NUL
                                THEN MapEmplace(@, param.shortName_, ref) ELSE @,
                    !.byLong = MapEmplace(@, param.longName_, ref),
                    !.named = Append(@, param)])

\* Faulty variant: only the empty long name is too short.
AddParamOneCharLongName(R, param) ==
    IF Len(param.longName_) < 1
    THEN Throws(R, "Too short long name parameter")
    ELSE IF MapHas(R.byLong, param.longName_)
    THEN Throws(R, "Repeated parameter long name")
    ELSE IF param.shortName_ # NUL /\ MapHas(R.byShort, param.shortName_)
    THEN Throws(R, "Repeated parameter short name")
    ELSE LET ref == NamedRef(Len(R.named) + 1)
         IN  Ok([R EXCEPT
                    !.byShort = IF param.shortName_ # NUL
                                THEN MapEmplace(@, param.shortName_, ref) ELSE @,
                    !.byLong = MapEmplace(@, param.longName_, ref),
                    !.named = Append(@, param)])

\* Parser::addParam(std::unique_ptr<details::Param>)
AddParam(R, param) ==
    IF Len(param.longName_) < 2
    THEN Throws(R, "Too short long name parameter")
    ELSE IF MapHas(R.byLong, param.longName_)
    THEN Throws(R, "Repeated parameter long name")
    ELSE IF param.shortName_ # NUL /\ MapHas(R.byShort, param.shortName_)
    THEN Throws(R, "Repeated parameter short name")
    ELSE LET ref == NamedRef(Len(R.named) + 1)
         IN  Ok([R EXCEPT
                    !.byShort = IF param.shortName_ # NUL
                                THEN MapEmplace(@, param.shortName_, ref) ELSE @,
                    !.byLong = MapEmplace(@, param.longName_, ref),
                    !.named = Append(@, param)])

\* Faulty variant: a positional may follow a required positional list.
AddPositionalAfterList(R, param) ==
    LET indexed == [param EXCEPT !.index_ = Len(R.positional)]
    IN  IF R.positional # <<>> /\ R.positional[Len(R.positional)].optional_
        THEN Throws(R, "Optional positional parameter followed by another positional parameter")
        ELSE Ok([R EXCEPT !.positional = Append(@, indexed)])

\* Parser::addPositional(std::unique_ptr<details::Param>)
AddPositional(R, param) ==
    LET indexed == [param EXCEPT !.index_ = Len(R.positional)]
    IN  IF R.positional # <<>> /\ R.positional[Len(R.positional)].optional_
        THEN Throws(R, "Optional positional parameter followed by another positional parameter")
        ELSE IF R.positional # <<>> /\ R.positional[Len(R.positional)].isList
        THEN Throws(R, "Positional list parameter followed by another positional parameter")
        ELSE Ok([R EXCEPT !.positional = Append(@, indexed)])

\* The public overloads: addParam(value, longName, shortName, help, type),
\* addFlag(value, longName, shortName, help), addPositional(value, longName, help, type).
RegisterError(R, call) ==
    IF call.op = "addPositional"
    THEN AddPositional(R, NewParam(call, NUL, call.type = OPTIONAL, FALSE))
    ELSE IF BadShortNameCtor(call.shortName)
    THEN Throws(R, "Bad short name for parameter")
    ELSE IF call.op = "addFlag"
    THEN AddParam(R, NewParam(call, call.shortName, TRUE, TRUE))
    ELSE AddParam(R, NewParam(call, call.shortName, call.type = OPTIONAL, FALSE))

-------- \* fluent-API parser

\* Parser::addNamedParam
AddNamedParam(R, param) ==
    IF Len(param.longName_) < 2
    THEN Throws(R, "Too short long name parameter")
    ELSE IF MapHas(R.byLong, param.longName_)
    THEN Throws(R, "Repeated long name parameter")
    ELSE Ok([R EXCEPT !.byLong = MapEmplace(@, param.longName_, NamedRef(Len(R.named) + 1)),
                      !.named = Append(@, param)])

\* Parser::addPositionalParam
AddPositionalParam(R, param) ==
    LET param_index == Len(R.positional)
    IN  IF param.isList /\ R.positional # <<>> /\ R.positional[Len(R.positional)].isList
        THEN Throws(R, "Repeated positional list parameter")
        ELSE Ok([R EXCEPT !.positional = Append(@, [param EXCEPT !.index_ = param_index])])

SetParam(R, ref, param) ==
    IF ref.seq = "named" THEN [R EXCEPT !.named[ref.idx] = param]
    ELSE [R EXCEPT !.positional[ref.idx] = param]

\* The statement did not return: a member function was called through the
\* null Param::parser_ and read the parser's map at a null `this`.
NullParserCall == "call through null parser_"

\* Param::shortName(char) with Parser::setShortName.  parser_ is set by
\* addNamedParam only.
ShortName(R, ref, name) ==
    LET param == DerefIn(R, ref)
        named == SetParam(R, ref, [param EXCEPT !.shortName_ = name])
    IN  IF param.index_ # 0
        THEN Throws(R, "Short name for positional parameter")
        ELSE IF CharCode(name) <= CharCode(" ") \/ CharCode(name) > 127
        THEN Throws(R, "Bad short name for parameter")
        ELSE IF ref.seq = "positional"
        THEN Throws(named, NullParserCall)
        ELSE IF MapHas(R.byShort, name)
        THEN Throws(named, "Repeated short name parameter")
        ELSE Ok([named EXCEPT !.byShort = MapEmplace(@, name, ref)])

\* Param::optional()
Optional(R, ref) == Ok(SetParam(R, ref, [DerefIn(R, ref) EXCEPT !.optional_ = TRUE]))

\* Param::flag()
Flag(R, ref) ==
    LET param == DerefIn(R, ref)
    IN  IF param.index_ # 0
        THEN Throws(R, "Flag positional parameter")
        ELSE Ok(SetParam(R, ref, [param EXCEPT !.flag_ = TRUE, !.optional_ = TRUE]))

\* One registration statement of the fluent API:
\*   parser.addParam(v, longName, help)[.shortName(c)][.optional() | .flag()];
\*   parser.addPositionalParam(v, longName, help)[.shortName(c)][.optional() | .flag()];
\* a throwing call ends the statement.
RegisterFluent(R, call) ==
    LET added == IF call.op = "addPositional"
                 THEN AddPositionalParam(R, NewParam(call, NUL, FALSE, FALSE))
                 ELSE AddNamedParam(R, NewParam(call, NUL, FALSE, FALSE))
        ref == IF call.op = "addPositional"
               THEN PositionalRef(Len(R.positional) + 1)
               ELSE NamedRef(Len(R.named) + 1)
        shortNamed == IF added.err = "" /\ call.shortName # NUL
                      THEN ShortName(added.R, ref, call.shortName) ELSE added
    IN  IF shortNamed.err # "" THEN shortNamed
        ELSE IF call.op = "addFlag" \/ call.type = FLAG THEN Flag(shortNamed.R, ref)
        ELSE IF call.type = OPTIONAL THEN Optional(shortNamed.R, ref)
        ELSE shortNamed

\* Faulty variant: a short name already in use is dropped without a throw.
RegisterDropsShortNameInUse(i, R, call) ==
    LET c == IF MapHas(R.byShort, call.shortName)
             THEN [call EXCEPT !.shortName = NUL] ELSE call
    IN  IF i = "error" THEN RegisterError(R, c) ELSE RegisterFluent(R, c)

\* A registration statement against the parser in use.
Register(i, R, call) == IF i = "error" THEN RegisterError(R, call) ELSE RegisterFluent(R, call)

-----------------------------------------------------------------------------
(* The caller: its variables, the registration statements it may issue and *)
(* the command line tokens it may pass.                                    *)

T(longName, op, var, shortName, type, isList, conv) ==
    [op |-> op, var |-> var, longName |-> longName, shortName |-> shortName,
     type |-> type, isList |-> isList, conv |-> conv]

Calls ==
    { T(<<"n", "m">>, "addParam", "name", "n", REQUIRED, FALSE, "string"),
      T(<<"f", "l">>, "addFlag", "force", "f", OPTIONAL, FALSE, "bool"),
      T(<<"l", "s">>, "addParam", "list", "l", OPTIONAL, TRUE, "string"),
      T(<<"f", "i", "l", "e">>, "addPositional", "file", NUL, REQUIRED, FALSE, "string"),
      T(<<"r", "e", "s", "t">>, "addPositional", "rest", NUL, OPTIONAL, TRUE, "string") }

CallerVars == {c.var : c \in Calls}

CallOf(var) == CHOOSE c \in Calls : c.var = var

\* What the caller's variables hold before the first parse(): its defaults.
InitialValue(var) ==
    LET c == CallOf(var)
        scalar == CASE c.conv = "string" -> <<"d">>
                    [] c.conv = "int"    -> 0
                    [] OTHER             -> FALSE
    IN  IF c.isList THEN <<scalar>> ELSE scalar

\* -n  --nm  --nm=a=b  -f  --fl  -l  --ls=b  -10  a  b  and the empty token
\* (a name is unknown to a registry that has not registered it).
Tokens ==
    { <<"-", "n">>, <<"-", "-", "n", "m">>, <<"-", "-", "n", "m", "=", "a", "=", "b">>,
      <<"-", "f">>, <<"-", "-", "f", "l">>,
      <<"-", "l">>, <<"-", "-", "l", "s", "=", "b">>,
      <<"-", "1", "0">>, <<"a">>, <<"b">>, <<>> }

-----------------------------------------------------------------------------
(* Matching engine: Parser::parse and what it calls.                       *)

Deref(ref) == DerefIn(Registry, ref)

\* Parser::parse as it runs: the containers, the caller's variables, the
\* locals of the argv loop and what it has thrown.
Machine ==
    [named |-> namedParams, positional |-> positionalParams,
     byShort |-> paramsByShortName, byLong |-> paramsByLongName,
     store |-> store, pos |-> currentPositionalPos, cur |-> currentNamedParam,
     error |-> error, pc |-> pc]

\* Faulty variant: the list overload never clears what the vector held before.
ParamParseKeepsList(i, param, arg, held, junk) ==
    LET scalar == Convert(param.conv, arg, held)
        element == Convert(param.conv, arg, junk)
    IN  IF param.isList
        THEN [value |-> Append(held, element.value), parsed |-> TRUE, repeated |-> FALSE,
              bad |-> element.fail \/ ~element.eof]
        ELSE IF i = "fluent" /\ param.parsed_
        THEN [value |-> held, parsed |-> TRUE, repeated |-> TRUE, bad |-> FALSE]
        ELSE [value |-> scalar.value, parsed |-> TRUE, repeated |-> FALSE,
              bad |-> scalar.fail \/ ~scalar.eof]

\* Faulty variant: the list overload clears the vector on every value.
ParamParseClearsAlways(i, param, arg, held, junk) ==
    LET scalar == Convert(param.conv, arg, held)
        element == Convert(param.conv, arg, junk)
    IN  IF param.isList
        THEN [value |-> <<element.value>>, parsed |-> TRUE, repeated |-> FALSE,
              bad |-> element.fail \/ ~element.eof]
        ELSE IF i = "fluent" /\ param.parsed_
        THEN [value |-> held, parsed |-> TRUE, repeated |-> TRUE, bad |-> FALSE]
        ELSE [value |-> scalar.value, parsed |-> TRUE, repeated |-> FALSE,
              bad |-> scalar.fail \/ ~scalar.eof]

\* Faulty variant: the fluent scalar overload takes a second value instead of throwing.
ParamParseOverwrites(i, param, arg, held, junk) ==
    LET scalar == Convert(param.conv, arg, held)
        element == Convert(param.conv, arg, junk)
        kept == IF param.parsed_ THEN held ELSE <<>>
    IN  IF param.isList
        THEN [value |-> Append(kept, element.value), parsed |-> TRUE, repeated |-> FALSE,
              bad |-> element.fail \/ ~element.eof]
        ELSE [value |-> scalar.value, parsed |-> TRUE, repeated |-> FALSE,
              bad |-> scalar.fail \/ ~scalar.eof]

\* ParamImpl<T, Converter>::parse and ParamImpl<std::vector<T>, Converter>::parse,
\* followed by the stream test of Parser::parseArg.  `junk` is the content of
\* the uninitialised local of the list overload.
ParamParse(i, param, arg, held, junk) ==
    LET scalar == Convert(param.conv, arg, held)
        element == Convert(param.conv, arg, junk)
        kept == IF param.parsed_ THEN held ELSE <<>>
    IN  IF param.isList
        THEN [value |-> Append(kept, element.value), parsed |-> TRUE, repeated |-> FALSE,
              bad |-> element.fail \/ ~element.eof]
        ELSE IF i = "fluent" /\ param.parsed_
        THEN [value |-> held, parsed |-> TRUE, repeated |-> TRUE, bad |-> FALSE]
        ELSE [value |-> scalar.value, parsed |-> TRUE, repeated |-> FALSE,
              bad |-> scalar.fail \/ ~scalar.eof]

\* Parser::parseArg: the message it throws for a stream left failed or unread.
BadArgumentMessage(param) ==
    IF param.index_ # 0 THEN "Bad positional argument" ELSE "Bad argument"

\* Parser::parseArg: what it throws; the Error-based parser appends the
\* valid values of the parameter.
BadArgument(i, param, ref, arg) ==
    [Thrown(BadArgumentMessage(param), ref, arg)
        EXCEPT !.valid = IF i = "error" THEN GetValidValues(param.conv) ELSE <<>>]

\* One iteration of the argv loop of the Error-based Parser::parse: the
\* branch that takes the token.
ClassifyErrorIn(m, arg) ==
    LET shortRef == MapFind(m.byShort, arg[2])
        shortHit == /\ Len(arg) = 2 /\ arg[1] = "-"
                    /\ shortRef # NULL
                    /\ (~DerefIn(m, shortRef).parsed_ \/ DerefIn(m, shortRef).isList)
        longForm == Len(arg) > 2 /\ arg[1] = "-" /\ arg[2] = "-"
        equalPos == Find(arg, "=")
        argName == IF equalPos = 0 THEN EraseFront(arg, 2)
                   ELSE EraseFront(EraseFrom(arg, equalPos), 2)
        longRef == MapFind(m.byLong, argName)
        longHit == /\ longForm
                   /\ longRef # NULL
                   /\ (~DerefIn(m, longRef).parsed_ \/ DerefIn(m, longRef).isList)
    IN  IF m.cur # NULL
        THEN [how |-> "value", param |-> m.cur, text |-> arg, msg |-> ""]
        ELSE IF shortHit
        THEN IF DerefIn(m, shortRef).flag_
             THEN [how |-> "flag", param |-> shortRef, text |-> <<"1">>, msg |-> ""]
             ELSE [how |-> "await", param |-> shortRef, text |-> <<>>, msg |-> ""]
        ELSE IF longHit /\ equalPos = 0
        THEN IF DerefIn(m, longRef).flag_
             THEN [how |-> "flag", param |-> longRef, text |-> <<"1">>, msg |-> ""]
             ELSE [how |-> "await", param |-> longRef, text |-> <<>>, msg |-> ""]
        ELSE IF longHit
        THEN [how |-> "assign", param |-> longRef, text |-> EraseFront(arg, equalPos),
              msg |-> ""]
        ELSE IF m.pos >= Len(m.positional)
        THEN [how |-> "error", param |-> NULL, text |-> arg, msg |-> "Unexpected argument"]
        ELSE [how |-> "positional", param |-> PositionalRef(m.pos + 1),
              text |-> arg, msg |-> ""]

\* The iteration in the running parse().
ClassifyError(arg) == ClassifyErrorIn(Machine, arg)

\* The same iteration in the fluent-API Parser::parse.
ClassifyFluentIn(m, arg) ==
    LET shortRef == MapFind(m.byShort, arg[2])
        equalPos == Find(arg, "=")
        argName == IF equalPos = 0 THEN EraseFront(arg, 2)
                   ELSE EraseFront(EraseFrom(arg, equalPos), 2)
        longRef == MapFind(m.byLong, argName)
    IN  IF m.cur # NULL
        THEN [how |-> "value", param |-> m.cur, text |-> arg, msg |-> ""]
        ELSE IF Len(arg) < 2 \/ arg[1] # "-"
        THEN IF m.pos >= Len(m.positional)
             THEN [how |-> "error", param |-> NULL, text |-> arg,
                   msg |-> "Unexpected positional argument"]
             ELSE [how |-> "positional", param |-> PositionalRef(m.pos + 1),
                   text |-> arg, msg |-> ""]
        ELSE IF Len(arg) = 2
        THEN IF shortRef = NULL
             THEN [how |-> "error", param |-> NULL, text |-> arg, msg |-> "Unexpected argument"]
             ELSE IF DerefIn(m, shortRef).flag_
             THEN [how |-> "flag", param |-> shortRef, text |-> <<"1">>, msg |-> ""]
             ELSE [how |-> "await", param |-> shortRef, text |-> <<>>, msg |-> ""]
        ELSE IF arg[2] # "-"
        THEN [how |-> "error", param |-> NULL, text |-> arg, msg |-> "Bad argument"]
        ELSE IF longRef = NULL
        THEN [how |-> "error", param |-> NULL, text |-> arg, msg |-> "Unexpected argument"]
        ELSE IF equalPos # 0
        THEN [how |-> "assign", param |-> longRef, text |-> EraseFront(arg, equalPos),
              msg |-> ""]
        ELSE IF DerefIn(m, longRef).flag_
        THEN [how |-> "flag", param |-> longRef, text |-> <<"1">>, msg |-> ""]
        ELSE [how |-> "await", param |-> longRef, text |-> <<>>, msg |-> ""]

\* The iteration in the running parse().
ClassifyFluent(arg) == ClassifyFluentIn(Machine, arg)

\* Faulty variant: the Error-based parser runs the fluent parser's loop.
ClassifyAsFluent(arg) == ClassifyFluent(arg)

\* Faulty variant: an awaited value that looks like an option is rejected.
ClassifyValueMustBeBare(arg) ==
    IF currentNamedParam # NULL /\ Len(arg) >= 2 /\ arg[1] = "-"
    THEN [how |-> "error", param |-> NULL, text |-> arg, msg |-> "Unexpected argument"]
    ELSE IF impl = "error" THEN ClassifyError(arg) ELSE ClassifyFluent(arg)

\* Faulty variant: a bare token with no positional slot left is skipped.
ClassifySkipsExtraBare(arg) ==
    IF /\ currentNamedParam = NULL
       /\ Len(arg) < 2 \/ arg[1] # "-"
       /\ currentPositionalPos >= Len(positionalParams)
    THEN [how |-> "await", param |-> NULL, text |-> <<>>, msg |-> ""]
    ELSE IF impl = "error" THEN ClassifyError(arg) ELSE ClassifyFluent(arg)

\* Faulty variant: a single-dash token longer than two characters is read as
\* the short option of its first letter.
ClassifyDashWordAsShort(arg) ==
    LET short == IF currentNamedParam = NULL /\ Len(arg) > 2 /\ arg[1] = "-" /\ arg[2] # "-"
                 THEN SubSeq(arg, 1, 2) ELSE arg
    IN  IF impl = "error" THEN ClassifyError(short) ELSE ClassifyFluent(short)

\* Faulty variant: the Error-based parser throws on a dash-led token it
\* matched to no named parameter instead of taking it as a positional one.
ClassifyRejectsDashed(arg) ==
    IF impl = "error" /\ ClassifyError(arg).how = "positional"
       /\ Len(arg) >= 2 /\ arg[1] = "-"
    THEN [how |-> "error", param |-> NULL, text |-> arg, msg |-> "Unexpected argument"]
    ELSE IF impl = "error" THEN ClassifyError(arg) ELSE ClassifyFluent(arg)

\* Faulty variant: once a positional token was taken, every dash-led token is
\* a positional one too (options first).
ClassifyInOptionsFirst(m, arg) ==
    IF m.cur = NULL /\ m.pos > 0 /\ Len(arg) >= 2 /\ arg[1] = "-"
    THEN IF m.pos >= Len(m.positional)
         THEN [how |-> "error", param |-> NULL, text |-> arg, msg |-> "Unexpected argument"]
         ELSE [how |-> "positional", param |-> PositionalRef(m.pos + 1),
               text |-> arg, msg |-> ""]
    ELSE IF impl = "error" THEN ClassifyErrorIn(m, arg) ELSE ClassifyFluentIn(m, arg)

\* The argv loop of the parser in use.
ClassifyIn(m, arg) ==
    IF impl = "error" THEN ClassifyErrorIn(m, arg) ELSE ClassifyFluentIn(m, arg)

Classify(arg) == ClassifyIn(Machine, arg)

\* The end-of-scan loops of Parser::parse: the first unparsed, non-optional
\* descriptor, named ones first.
MissingNamed == {i \in 1..Len(namedParams) :
                    ~namedParams[i].parsed_ /\ ~namedParams[i].optional_}

MissingPositional == {i \in 1..Len(positionalParams) :
                         ~positionalParams[i].parsed_ /\ ~positionalParams[i].optional_}

SetMin(S) == CHOOSE x \in S : \A y \in S : x <= y

\* Faulty variant: the loop over the positional descriptors runs first.
MissingCheckPositionalFirst ==
    IF MissingPositional # {}
    THEN Thrown("Missing positional argument", PositionalRef(SetMin(MissingPositional)), <<>>)
    ELSE IF MissingNamed # {}
    THEN Thrown("Missing argument", NamedRef(SetMin(MissingNamed)), <<>>)
    ELSE NoError

\* Faulty variant: the loop over the positional descriptors is left out.
MissingCheckNamedOnly ==
    IF MissingNamed # {}
    THEN Thrown("Missing argument", NamedRef(SetMin(MissingNamed)), <<>>)
    ELSE NoError

MissingCheck ==
    IF MissingNamed # {}
    THEN Thrown("Missing argument", NamedRef(SetMin(MissingNamed)), <<>>)
    ELSE IF MissingPositional # {}
    THEN Thrown("Missing positional argument", PositionalRef(SetMin(MissingPositional)), <<>>)
    ELSE NoError

\* The fluent parser's check before the argv loop: an optional positional
\* parameter followed by a non-optional one.
OptionalOrderViolated ==
    \E i, j \in 1..Len(positionalParams) :
        i < j /\ positionalParams[i].optional_ /\ ~positionalParams[j].optional_

ResetParsed(params) == [i \in 1..Len(params) |-> [params[i] EXCEPT !.parsed_ = FALSE]]

-----------------------------------------------------------------------------
(* The state machine                                                       *)

\* The parser after construction and the caller's variables at their defaults.
Constructed ==
    /\ namedParams = <<>>
    /\ positionalParams = <<>>
    /\ paramsByShortName = <<>>
    /\ paramsByLongName = <<>>
    /\ store = [v \in CallerVars |-> InitialValue(v)]
    /\ regError = ""
    /\ pc = "idle"
    /\ argv = <<>>
    /\ currentPositionalPos = 0
    /\ currentNamedParam = NULL
    /\ error = NoError
    /\ trace = <<>>
    /\ heldAtCall = store
    /\ exeName_ = <<>>
    /\ output = <<>>

\* The short names the caller registers are letters, on which the two kinds
\* of build agree.
Init ==
    /\ impl \in Impls
    /\ charIsSigned = TRUE
    /\ Constructed

BoundVars == {namedParams[i].value_ : i \in 1..Len(namedParams)}
                 \cup {positionalParams[i].value_ : i \in 1..Len(positionalParams)}

\* The caller issues one registration statement, binding one of its variables.
RegisterCall(call) ==
    LET r == Register(impl, Registry, call)
    IN  /\ pc = "idle"
        /\ regError # NullParserCall
        /\ call.var \notin BoundVars
        /\ IF call.op = "addPositional"
           THEN Len(positionalParams) < MaxPositional
           ELSE Len(namedParams) < MaxNamed
        /\ namedParams' = r.R.named
        /\ positionalParams' = r.R.positional
        /\ paramsByShortName' = r.R.byShort
        /\ paramsByLongName' = r.R.byLong
        /\ regError' = r.err
        /\ UNCHANGED <<impl, charIsSigned, exeName_, output, store, pc, argv, currentPositionalPos, currentNamedParam,
                       error, trace, heldAtCall>>

\* The last position of c in s (0 when it does not occur):
\* std::string::find_last_of with npos as 0.
FindLastOf(s, c) ==
    IF \E k \in 1..Len(s) : s[k] = c
    THEN CHOOSE k \in 1..Len(s) : s[k] = c /\ \A n \in (k + 1)..Len(s) : s[n] # c
    ELSE 0

\* The executable base name parse() computes from argv[0].
BaseName(argv0) == EraseFront(argv0, FindLastOf(argv0, "/"))

\* argv[0] of the tests: "exe".
Argv0 == <<"e", "x", "e">>

\* Faulty variant: the lists bound to parameters are emptied when parse() starts.
ParseBeginClearsLists ==
    /\ pc = "idle"
    /\ namedParams' = ResetParsed(namedParams)
    /\ positionalParams' = ResetParsed(positionalParams)
    /\ regError' = ""
    /\ argv' = <<>>
    /\ trace' = <<>>
    /\ currentPositionalPos' = 0
    /\ currentNamedParam' = NULL
    /\ pc' = "scan"
    /\ error' = NoError
    /\ heldAtCall' = store
    /\ store' = [v \in CallerVars |->
                    IF v \in BoundVars /\ CallOf(v).isList THEN <<>> ELSE store[v]]
    /\ exeName_' = BaseName(Argv0)
    /\ UNCHANGED <<impl, charIsSigned, output, paramsByShortName, paramsByLongName>>

\* Parser::parse up to the argv loop: every parsed_ is reset, the locals are
\* initialised; the fluent parser also checks the order of optional positionals.
ParseBeginAs(argv0) ==
    /\ pc = "idle"
    /\ namedParams' = ResetParsed(namedParams)
    /\ positionalParams' = ResetParsed(positionalParams)
    /\ regError' = ""
    /\ argv' = <<>>
    /\ trace' = <<>>
    /\ currentPositionalPos' = 0
    /\ currentNamedParam' = NULL
    /\ IF impl = "fluent" /\ OptionalOrderViolated
       THEN /\ pc' = "done"
            /\ error' = Thrown("Optional positional parameter followed by non-optional",
                               NULL, <<>>)
       ELSE /\ pc' = "scan"
            /\ error' = NoError
    /\ heldAtCall' = store
    /\ exeName_' = BaseName(argv0)
    /\ UNCHANGED <<impl, charIsSigned, output, paramsByShortName, paramsByLongName, store>>

\* parse() as the tests call it.
ParseBegin == ParseBeginAs(Argv0)

SetParsed(ref) ==
    /\ namedParams' = IF ref.seq = "named"
                      THEN [namedParams EXCEPT ![ref.idx].parsed_ = TRUE]
                      ELSE namedParams
    /\ positionalParams' = IF ref.seq = "positional"
                           THEN [positionalParams EXCEPT ![ref.idx].parsed_ = TRUE]
                           ELSE positionalParams

\* Faulty variant: the cursor moves past a list as well.
NextPositionalPosAlways(how, param) ==
    IF how = "positional" THEN currentPositionalPos + 1 ELSE currentPositionalPos

\* After a positional token was parsed: ++currentPositionalPos unless the
\* descriptor is a list.
NextPositionalPos(how, param) ==
    IF how = "positional" /\ ~param.isList
    THEN currentPositionalPos + 1
    ELSE currentPositionalPos

\* One iteration of the argv loop on the next token.
ParseToken(arg) ==
    LET c == Classify(arg)
        param == Deref(c.param)
    IN  /\ pc = "scan"
        /\ Len(argv) < MaxArgs
        /\ argv' = Append(argv, arg)
        /\ trace' = Append(trace, [how |-> c.how, param |-> c.param, text |-> c.text])
        /\ UNCHANGED <<impl, charIsSigned, exeName_, output, paramsByShortName, paramsByLongName, regError, heldAtCall>>
        /\ CASE c.how = "error" ->
                  /\ error' = Thrown(c.msg, NULL, arg)
                  /\ pc' = "done"
                  /\ UNCHANGED <<namedParams, positionalParams, store,
                                 currentPositionalPos, currentNamedParam>>
             [] c.how = "await" ->
                  /\ currentNamedParam' = c.param
                  /\ UNCHANGED <<namedParams, positionalParams, store,
                                 currentPositionalPos, error, pc>>
             [] OTHER ->
                  \E junk \in Indeterminate(param.conv) :
                     LET r == ParamParse(impl, param, c.text, store[param.value_], junk)
                     IN  /\ store' = [store EXCEPT ![param.value_] = r.value]
                         /\ SetParsed(c.param)
                         /\ IF r.repeated \/ r.bad
                            THEN /\ error' = IF r.repeated
                                             THEN Thrown("Repeated argument", c.param, c.text)
                                             ELSE BadArgument(impl, param, c.param, c.text)
                                 /\ pc' = "done"
                                 /\ UNCHANGED <<currentPositionalPos, currentNamedParam>>
                            ELSE /\ currentNamedParam' = NULL
                                 /\ currentPositionalPos' = NextPositionalPos(c.how, param)
                                 /\ UNCHANGED <<error, pc>>

\* Faulty variant: when a parameter is missing, the caller's variables are
\* put back to what they held when parse() was called.
ParseEndRollsBack ==
    /\ pc = "scan"
    /\ error' = MissingCheck
    /\ pc' = "done"
    /\ store' = IF MissingCheck = NoError THEN store ELSE heldAtCall
    /\ UNCHANGED <<impl, charIsSigned, exeName_, output, registryVars, regError, argv, currentPositionalPos,
                   currentNamedParam, trace, heldAtCall>>

\* argv is exhausted: the completeness loops, then parse() returns or throws.
ParseEnd ==
    /\ pc = "scan"
    /\ error' = MissingCheck
    /\ pc' = "done"
    /\ UNCHANGED <<impl, charIsSigned, exeName_, output, registryVars, store, regError, argv, currentPositionalPos,
                   currentNamedParam, trace, heldAtCall>>

\* parse() has returned, or the caller has caught what it threw: the locals
\* of the call are gone, and the caller goes on; it may register more
\* parameters or call parse() again.
Return ==
    /\ pc = "done"
    /\ pc' = "idle"
    /\ argv' = <<>>
    /\ trace' = <<>>
    /\ currentPositionalPos' = 0
    /\ currentNamedParam' = NULL
    /\ error' = NoError
    /\ heldAtCall' = store
    /\ UNCHANGED <<impl, charIsSigned, exeName_, output, registryVars, store, regError>>

\* Parser::parse as a function of the command line and of what the caller's
\* variables hold, for the registry as it is: the state it starts the argv
\* loop in, one iteration, the end of the scan, and the whole call.  (The
\* lists the caller registers hold strings, whose local `T value;` is
\* default-constructed.)
Started(held) ==
    [named |-> ResetParsed(namedParams), positional |-> ResetParsed(positionalParams),
     byShort |-> paramsByShortName, byLong |-> paramsByLongName,
     store |-> held, pos |-> 0, cur |-> NULL,
     error |-> IF impl = "fluent" /\ OptionalOrderViolated
               THEN Thrown("Optional positional parameter followed by non-optional",
                           NULL, <<>>)
               ELSE NoError,
     pc |-> IF impl = "fluent" /\ OptionalOrderViolated THEN "done" ELSE "scan"]

Step(m, arg) ==
    LET c == ClassifyIn(m, arg)
        param == DerefIn(m, c.param)
        junk == CHOOSE j \in Indeterminate(param.conv) : TRUE
        r == ParamParse(impl, param, c.text, m.store[param.value_], junk)
        bound == [SetParam(m, c.param, [param EXCEPT !.parsed_ = TRUE])
                     EXCEPT !.store[param.value_] = r.value]
    IN  CASE c.how = "error" ->
                [m EXCEPT !.error = Thrown(c.msg, NULL, arg), !.pc = "done"]
          [] c.how = "await" ->
                [m EXCEPT !.cur = c.param]
          [] OTHER ->
                IF r.repeated \/ r.bad
                THEN [bound EXCEPT !.error = IF r.repeated
                                             THEN Thrown("Repeated argument", c.param, c.text)
                                             ELSE BadArgument(impl, param, c.param, c.text),
                                   !.pc = "done"]
                ELSE [bound EXCEPT !.cur = NULL,
                                   !.pos = IF c.how = "positional" /\ ~param.isList
                                           THEN @ + 1 ELSE @]

Finish(m) ==
    LET named == {i \in 1..Len(m.named) : ~m.named[i].parsed_ /\ ~m.named[i].optional_}
        positional == {i \in 1..Len(m.positional) :
                          ~m.positional[i].parsed_ /\ ~m.positional[i].optional_}
    IN  [m EXCEPT !.pc = "done",
                  !.error = IF named # {}
                            THEN Thrown("Missing argument", NamedRef(SetMin(named)), <<>>)
                            ELSE IF positional # {}
                            THEN Thrown("Missing positional argument",
                                        PositionalRef(SetMin(positional)), <<>>)
                            ELSE NoError]

RECURSIVE Run(_, _)
Run(m, args) ==
    IF m.pc = "done" THEN m
    ELSE IF args = <<>> THEN Finish(m)
    ELSE Run(Step(m, Head(args)), Tail(args))

Parse(args, held) == Run(Started(held), args)

\* The same call for parameters of any type: the local `T value;` of the
\* list parse() holds junk[conv] before the conversion, one of the values an
\* uninitialised local of that type may show.
JunkChoices ==
    { [string |-> s, int |-> n, bool |-> b, enum |-> e] :
          s \in Indeterminate("string"), n \in Indeterminate("int"),
          b \in Indeterminate("bool"), e \in Indeterminate("enum") }

StepWith(m, arg, junk) ==
    LET c == ClassifyIn(m, arg)
        param == DerefIn(m, c.param)
        r == ParamParse(impl, param, c.text, m.store[param.value_], junk[param.conv])
        bound == [SetParam(m, c.param, [param EXCEPT !.parsed_ = TRUE])
                     EXCEPT !.store[param.value_] = r.value]
    IN  CASE c.how = "error" ->
                [m EXCEPT !.error = Thrown(c.msg, NULL, arg), !.pc = "done"]
          [] c.how = "await" ->
                [m EXCEPT !.cur = c.param]
          [] OTHER ->
                IF r.repeated \/ r.bad
                THEN [bound EXCEPT !.error = IF r.repeated
                                             THEN Thrown("Repeated argument", c.param, c.text)
                                             ELSE BadArgument(impl, param, c.param, c.text),
                                   !.pc = "done"]
                ELSE [bound EXCEPT !.cur = NULL,
                                   !.pos = IF c.how = "positional" /\ ~param.isList
                                           THEN @ + 1 ELSE @]

RECURSIVE RunWith(_, _, _)
RunWith(m, args, junk) ==
    IF m.pc = "done" THEN m
    ELSE IF args = <<>> THEN Finish(m)
    ELSE RunWith(StepWith(m, Head(args), junk), Tail(args), junk)

ParseWith(args, held, junk) == RunWith(Started(held), args, junk)

Next ==
    \/ \E call \in Calls : RegisterCall(call)
    \/ ParseBegin
    \/ \E arg \in Tokens : ParseToken(arg)
    \/ ParseEnd

Spec == Init /\ [][Next]_vars

\* The same program run on command lines that name the list option in each
\* of its forms among other options and bare tokens:
\* -l  --ls  --ls=b  -n  -f  a  b
ListTokens ==
    { <<"-", "l">>, <<"-", "-", "l", "s">>, <<"-", "-", "l", "s", "=", "b">>,
      <<"-", "n">>, <<"-", "f">>, <<"a">>, <<"b">> }

NextList ==
    \/ \E call \in Calls : RegisterCall(call)
    \/ ParseBegin
    \/ \E arg \in ListTokens : ParseToken(arg)
    \/ ParseEnd

SpecList == Init /\ [][NextList]_vars

\* The registration statements of a caller that tries the registry's checks:
\* the statements above; "nm" again with other attributes, as a flag and as a
\* positional; a positional's name again, positional and named; a new long
\* name with a short name in use; long names of no and of one character;
\* short names from '\1' to static_cast<char>(255); positionals of every
\* arity and requiredness.
RegCalls ==
    Calls
    \cup { T(<<"n", "m">>, "addParam", "list", "l", OPTIONAL, TRUE, "string"),
           T(<<"n", "m">>, "addFlag", "force", "f", OPTIONAL, FALSE, "bool"),
           T(<<"n", "m">>, "addPositional", "file", NUL, REQUIRED, FALSE, "string"),
           T(<<"f", "i", "l", "e">>, "addPositional", "rest", NUL, OPTIONAL, TRUE, "string"),
           T(<<"f", "i", "l", "e">>, "addParam", "name", "x", REQUIRED, FALSE, "string"),
           T(<<"a", "b">>, "addParam", "list", "n", OPTIONAL, TRUE, "string"),
           T(<<"a", "b">>, "addFlag", "force", "n", OPTIONAL, FALSE, "bool"),
           T(<<>>, "addFlag", "force", "f", OPTIONAL, FALSE, "bool"),
           T(<<"x">>, "addParam", "name", "x", REQUIRED, FALSE, "string"),
           T(<<"x">>, "addPositional", "file", NUL, REQUIRED, FALSE, "string") }
    \cup { T(<<"n", "m">>, "addParam", "name", c, REQUIRED, FALSE, "string") :
               c \in {NUL, "SOH", " ", "!", "DEL", "x80", "xFF"} }
    \cup { T(<<v>>, "addPositional", v, NUL, type, CallOf(v).isList, "string") :
               v \in {"name", "file", "list", "rest"}, type \in {REQUIRED, OPTIONAL} }

InitReg ==
    /\ impl \in Impls
    /\ charIsSigned \in BOOLEAN
    /\ Constructed

NextReg == \E call \in RegCalls : RegisterCall(call)

SpecReg == InitReg /\ [][NextReg]_vars

\* A caller that calls parse() again and again (as the tests do with one
\* parser and several command lines), on command lines with a scalar option,
\* the list option, a bare token and an empty token:
\* -n  --ls=b  a  ""
AgainTokens ==
    { <<"-", "n">>, <<"-", "-", "l", "s", "=", "b">>, <<"a">>, <<>> }

AgainCalls == {call \in Calls : call.var \in {"name", "list", "rest"}}

NextAgain ==
    \/ \E call \in AgainCalls : RegisterCall(call)
    \/ ParseBegin
    \/ \E arg \in AgainTokens : ParseToken(arg)
    \/ ParseEnd
    \/ Return

SpecAgain == Init /\ [][NextAgain]_vars

\* The same caller with named parameters only, a flag among them:
\* -n  -f  --ls=b  a
FrameTokens ==
    { <<"-", "n">>, <<"-", "f">>, <<"-", "-", "l", "s", "=", "b">>, <<"a">> }

FrameCalls == {call \in Calls : call.var \in {"name", "force", "list"}}

NextFrame ==
    \/ \E call \in FrameCalls : RegisterCall(call)
    \/ ParseBegin
    \/ \E arg \in FrameTokens : ParseToken(arg)
    \/ ParseEnd
    \/ Return

SpecFrame == Init /\ [][NextFrame]_vars

\* A caller of the fluent API that chains .shortName('x') and .flag() to its
\* positional parameters as well.
ChainCalls ==
    Calls
    \cup { T(CallOf(v).longName, "addPositional", v, c, type, CallOf(v).isList, "string") :
               v \in {"file", "rest"}, c \in {NUL, "x"}, type \in {REQUIRED, OPTIONAL, FLAG} }

InitChain ==
    /\ impl = "fluent"
    /\ charIsSigned = TRUE
    /\ Constructed

NextChain == \E call \in ChainCalls : RegisterCall(call)

SpecChain == InitChain /\ [][NextChain]_vars

\* A caller with text-valued parameters, a named and a positional one, on
\* command lines of
\* -n  --nm=  "--nm=a b"  "a b"  ""  "a\n"
TextTokens ==
    { <<"-", "n">>, <<"-", "-", "n", "m", "=">>,
      <<"-", "-", "n", "m", "=", "a", " ", "b">>,
      <<"a", " ", "b">>, <<>>, <<"a", "\n">> }

TextCalls == {call \in Calls : call.var \in {"name", "file"}}

NextText ==
    \/ \E call \in TextCalls : RegisterCall(call)
    \/ ParseBegin
    \/ \E arg \in TextTokens : ParseToken(arg)
    \/ ParseEnd

SpecText == Init /\ [][NextText]_vars

\* A caller of the Error-based parser whose parameters are enum-backed, a
\* named one and a positional one, on command lines of
\* -n  --nm=low  --nm=mid  low  high  mid  "low\n"
\* (its variables start at an enumerator the mapping does not name).
EnumCalls ==
    { T(<<"n", "m">>, "addParam", "name", "n", REQUIRED, FALSE, "enum"),
      T(<<"f", "i", "l", "e">>, "addPositional", "file", NUL, OPTIONAL, FALSE, "enum") }

EnumTokens ==
    { <<"-", "n">>, <<"-", "-", "n", "m", "=", "l", "o", "w">>,
      <<"-", "-", "n", "m", "=", "m", "i", "d">>,
      <<"l", "o", "w">>, <<"h", "i", "g", "h">>, <<"m", "i", "d">>,
      <<"l", "o", "w", "\n">> }

InitEnum ==
    /\ impl = "error"
    /\ charIsSigned = TRUE
    /\ Constructed

NextEnum ==
    \/ \E call \in EnumCalls : RegisterCall(call)
    \/ ParseBegin
    \/ \E arg \in EnumTokens : ParseToken(arg)
    \/ ParseEnd

SpecEnum == InitEnum /\ [][NextEnum]_vars

\* A caller of the Error-based parser whose parameters are ints, a named
\* one and a positional one, both holding 1 before parse(), on command lines of
\* -n  12  12x  "12 "  " 12"  -10  +7  x  ""  " "  2147483647  2147483648
\* --nm=-10  --nm=12x
IntCalls ==
    { T(<<"n", "m">>, "addParam", "name", "n", REQUIRED, FALSE, "int"),
      T(<<"f", "i", "l", "e">>, "addPositional", "file", NUL, OPTIONAL, FALSE, "int") }

IntTokens ==
    { <<"-", "n">>, <<"1", "2">>, <<"1", "2", "x">>, <<"1", "2", " ">>, <<" ", "1", "2">>,
      <<"-", "1", "0">>, <<"+", "7">>, <<"x">>, <<>>, <<" ">>,
      <<"2", "1", "4", "7", "4", "8", "3", "6", "4", "7">>,
      <<"2", "1", "4", "7", "4", "8", "3", "6", "4", "8">>,
      <<"-", "-", "n", "m", "=", "-", "1", "0">>,
      <<"-", "-", "n", "m", "=", "1", "2", "x">> }

InitInt ==
    /\ impl = "error"
    /\ charIsSigned = TRUE
    /\ namedParams = <<>>
    /\ positionalParams = <<>>
    /\ paramsByShortName = <<>>
    /\ paramsByLongName = <<>>
    /\ store = [v \in CallerVars |-> 1]
    /\ regError = ""
    /\ pc = "idle"
    /\ argv = <<>>
    /\ currentPositionalPos = 0
    /\ currentNamedParam = NULL
    /\ error = NoError
    /\ trace = <<>>
    /\ heldAtCall = store
    /\ exeName_ = <<>>
    /\ output = <<>>

NextInt ==
    \/ \E call \in IntCalls : RegisterCall(call)
    \/ ParseBegin
    \/ \E arg \in IntTokens : ParseToken(arg)
    \/ ParseEnd

SpecInt == InitInt /\ [][NextInt]_vars

\* A caller that names its options again on the command line:
\* -n  --nm  --nm=a=b  -f  --fl  a
RepeatTokens ==
    { <<"-", "n">>, <<"-", "-", "n", "m">>, <<"-", "-", "n", "m", "=", "a", "=", "b">>,
      <<"-", "f">>, <<"-", "-", "f", "l">>, <<"a">> }

RepeatCalls == {call \in Calls : call.var \in {"name", "force", "file", "rest"}}

NextRepeat ==
    \/ \E call \in RepeatCalls : RegisterCall(call)
    \/ ParseBegin
    \/ \E arg \in RepeatTokens : ParseToken(arg)
    \/ ParseEnd

SpecRepeat == Init /\ [][NextRepeat]_vars

\* A caller that runs parse() on a command line and may run it again: a text
\* option, a list of ints, a list of bare texts, on command lines of
\* -n  --ls=7  --ls=  a  ""
IdemTokens ==
    { <<"-", "n">>, <<"-", "-", "l", "s", "=", "7">>, <<"-", "-", "l", "s", "=">>,
      <<"a">>, <<>> }

IdemCalls ==
    { call \in Calls : call.var \in {"name", "rest"} }
    \cup { T(<<"l", "s">>, "addParam", "list", "l", OPTIONAL, TRUE, "int") }

NextIdem ==
    \/ \E call \in IdemCalls : RegisterCall(call)
    \/ ParseBegin
    \/ \E arg \in IdemTokens : ParseToken(arg)
    \/ ParseEnd

SpecIdem == Init /\ [][NextIdem]_vars

\* A caller all of whose parameters are required but the trailing list, on
\* command lines that may go wrong at any token:
\* -n  --nm=  --ls=b  a  --xx
OrderTokens ==
    { <<"-", "n">>, <<"-", "-", "n", "m", "=">>, <<"-", "-", "l", "s", "=", "b">>,
      <<"a">>, <<"-", "-", "x", "x">> }

OrderCalls ==
    { call \in Calls : call.var \in {"name", "file", "rest"} }
    \cup { T(<<"l", "s">>, "addParam", "list", "l", REQUIRED, TRUE, "string"),
           T(<<"r", "e", "s", "t">>, "addPositional", "rest", NUL, REQUIRED, TRUE, "string") }

NextOrder ==
    \/ \E call \in OrderCalls : RegisterCall(call)
    \/ ParseBegin
    \/ \E arg \in OrderTokens : ParseToken(arg)
    \/ ParseEnd

SpecOrder == Init /\ [][NextOrder]_vars

-----------------------------------------------------------------------------
(* Help output: Parser::printParams / printOptions and Parser::printUsage, *)
(* which are the same code in the two later headers but for the valid      *)
(* values the Error-based one appends to a row.                            *)

\* std::setfill(' ') << std::setw(n) << ""
Spaces(n) == [k \in 1..n |-> " "]

Max(a, b) == IF a >= b THEN a ELSE b

RECURSIVE Flatten(_)
Flatten(texts) ==
    IF texts = <<>> THEN <<>> ELSE Head(texts) \o Flatten(Tail(texts))

INDENT == 4

\* helpIdent of a named descriptor, as the first loop of printParams counts it.
NamedHelpIndent(param) ==
    (IF param.shortName_ # NUL THEN 4 ELSE 0)
        + 2 + Len(param.longName_)
        + (IF ~param.flag_ THEN 3 + Len(param.longName_) ELSE 0)

\* helpIdent of a positional descriptor, as the second loop counts it.
PositionalHelpIndent(param) == 2 + Len(param.longName_)

\* Faulty variant: the " <name>" of a named descriptor is not counted.
MaxHelpIndentNoValue(R) ==
    LET RECURSIVE MaxNamedFrom(_, _), MaxPositionalFrom(_, _)
        MaxNamedFrom(k, m) ==
            IF k > Len(R.named) THEN m
            ELSE MaxNamedFrom(k + 1, Max(m, (IF R.named[k].shortName_ # NUL THEN 4 ELSE 0)
                                                + 2 + Len(R.named[k].longName_)))
        MaxPositionalFrom(k, m) ==
            IF k > Len(R.positional) THEN m
            ELSE MaxPositionalFrom(k + 1, Max(m, PositionalHelpIndent(R.positional[k])))
    IN  MaxPositionalFrom(1, MaxNamedFrom(1, 0)) + INDENT + 1

\* maxHelpIndent after the two loops and `maxHelpIndent += INDENT + 1`.
MaxHelpIndent(R) ==
    LET RECURSIVE MaxNamedFrom(_, _), MaxPositionalFrom(_, _)
        MaxNamedFrom(k, m) ==
            IF k > Len(R.named) THEN m
            ELSE MaxNamedFrom(k + 1, Max(m, NamedHelpIndent(R.named[k])))
        MaxPositionalFrom(k, m) ==
            IF k > Len(R.positional) THEN m
            ELSE MaxPositionalFrom(k + 1, Max(m, PositionalHelpIndent(R.positional[k])))
    IN  MaxPositionalFrom(1, MaxNamedFrom(1, 0)) + INDENT + 1

\* paramOutput of a named descriptor's row.
NamedParamString(param) ==
    Spaces(INDENT)
        \o (IF param.shortName_ # NUL THEN <<"-", param.shortName_, ",", " ">> ELSE <<>>)
        \o <<"-", "-">> \o param.longName_
        \o (IF ~param.flag_ THEN <<" ", "<">> \o param.longName_ \o <<">">> ELSE <<>>)

\* paramOutput of a positional descriptor's row.
PositionalParamString(param) ==
    Spaces(INDENT) \o <<"<">> \o param.longName_ \o <<">">>

\* The width handed to std::setw before the help text of a row.
HelpPadding(maxHelpIndent, paramString) == maxHelpIndent - Len(paramString)

\* ". Valid values: "
ValidValuesLabel ==
    <<".", " ", "V", "a", "l", "i", "d", " ", "v", "a", "l", "u", "e", "s", ":", " ">>

\* The lambda outputHelp.
OutputHelp(i, maxHelpIndent, paramString, param) ==
    paramString \o Spaces(HelpPadding(maxHelpIndent, paramString)) \o param.help_
        \o (IF i = "error" /\ GetValidValues(param.conv) # <<>>
            THEN ValidValuesLabel \o GetValidValues(param.conv) ELSE <<>>)
        \o <<"\n">>

\* What printParams (printOptions) writes to the stream.
PrintParamsText(i, R) ==
    <<"O", "p", "t", "i", "o", "n", "s", ":", "\n">>
        \o Flatten([k \in 1..Len(R.named) |->
                        OutputHelp(i, MaxHelpIndent(R), NamedParamString(R.named[k]),
                                   R.named[k])])
        \o Flatten([k \in 1..Len(R.positional) |->
                        OutputHelp(i, MaxHelpIndent(R),
                                   PositionalParamString(R.positional[k]), R.positional[k])])

MAX_WIDTH == 80

\* paramOutput of a named descriptor in the synopsis.
NamedUsageString(param) ==
    <<" ">>
        \o (IF param.optional_ THEN <<"[">>
            ELSE IF param.shortName_ # NUL THEN <<"(">> ELSE <<>>)
        \o (IF param.shortName_ # NUL
            THEN <<"-", param.shortName_, " ", "<">> \o param.longName_ \o <<">", " ", "|", " ">>
            ELSE <<>>)
        \o <<"-", "-">> \o param.longName_
        \o (IF ~param.flag_ THEN <<" ", "<">> \o param.longName_ \o <<">">> ELSE <<>>)
        \o (IF param.isList THEN <<" ", ".", ".", ".">> ELSE <<>>)
        \o (IF param.optional_ THEN <<"]">>
            ELSE IF param.shortName_ # NUL THEN <<")">> ELSE <<>>)

\* paramOutput of a positional descriptor in the synopsis.
PositionalUsageString(param) ==
    <<" ">>
        \o (IF param.optional_ THEN <<"[">> ELSE <<>>)
        \o <<"<">> \o param.longName_ \o <<">">>
        \o (IF param.isList THEN <<" ", ".", ".", ".">> ELSE <<>>)
        \o (IF param.optional_ THEN <<"]">> ELSE <<>>)

\* The renderings printUsage hands to outputUsage, in order.
UsageStrings(R) ==
    [k \in 1..Len(R.named) |-> NamedUsageString(R.named[k])]
        \o [k \in 1..Len(R.positional) |-> PositionalUsageString(R.positional[k])]

\* Faulty variant: the rendering is moved to a new line one column early.
OutputUsageWrapsEarly(u, usageIndent, paramString) ==
    IF paramString = <<>> THEN u
    ELSE IF u.width + Len(paramString) >= MAX_WIDTH
    THEN [output |-> u.output \o <<"\n">> \o Spaces(usageIndent) \o paramString,
          width |-> usageIndent + Len(paramString)]
    ELSE [output |-> u.output \o paramString, width |-> u.width + Len(paramString)]

\* The lambda outputUsage (with identUsage) on the locals output and width.
OutputUsage(u, usageIndent, paramString) ==
    IF paramString = <<>> THEN u
    ELSE IF u.width + Len(paramString) > MAX_WIDTH
    THEN [output |-> u.output \o <<"\n">> \o Spaces(usageIndent) \o paramString,
          width |-> usageIndent + Len(paramString)]
    ELSE [output |-> u.output \o paramString, width |-> u.width + Len(paramString)]

\* usageIndent: the width of "Usage: exeName".
UsageIndent(exeName) == 7 + Len(exeName)

\* The locals output and width once the first k renderings have been output.
RECURSIVE UsageAfter(_, _, _)
UsageAfter(R, exeName, k) ==
    IF k = 0 THEN [output |-> <<>>, width |-> UsageIndent(exeName)]
    ELSE OutputUsage(UsageAfter(R, exeName, k - 1), UsageIndent(exeName), UsageStrings(R)[k])

UsagePrefix(exeName) == <<"U", "s", "a", "g", "e", ":", " ">> \o exeName

\* What printUsage writes to the stream.
PrintUsageText(R, exeName) ==
    UsagePrefix(exeName) \o UsageAfter(R, exeName, Len(UsageStrings(R))).output \o <<"\n">>

\* The caller prints the option table.
PrintParams ==
    /\ pc \in {"idle", "done"}
    /\ output' = PrintParamsText(impl, Registry)
    /\ UNCHANGED <<impl, charIsSigned, registryVars, store, regError, pc, argv,
                   currentPositionalPos, currentNamedParam, error, trace, heldAtCall, exeName_>>

\* The caller prints the synopsis.
PrintUsage ==
    /\ pc \in {"idle", "done"}
    /\ output' = PrintUsageText(Registry, exeName_)
    /\ UNCHANGED <<impl, charIsSigned, registryVars, store, regError, pc, argv,
                   currentPositionalPos, currentNamedParam, error, trace, heldAtCall, exeName_>>

\* A run of n letters.
Letters(n) == [k \in 1..n |-> "e"]

\* argv[0] of the callers that print help: "exe" and paths ./e...e whose base
\* names make a synopsis line end before, at and beyond column 80.
ExePaths ==
    {Argv0} \cup {<<".", "/">> \o Letters(n) : n \in {36, 43, 44, 50, 60, 70}}

\* The registration statements of the callers that print help: those above,
\* a required list without a short name and an enum-backed parameter.
HelpCalls ==
    Calls
    \cup { T(<<"a", "b">>, "addParam", "list", NUL, REQUIRED, TRUE, "string"),
           T(<<"n", "m">>, "addParam", "name", "n", OPTIONAL, FALSE, "enum") }

\* The caller registers its parameters and calls parse() before it prints.
NextHelp ==
    \/ output = <<>> /\ \E call \in HelpCalls : RegisterCall(call)
    \/ output = <<>> /\ \E argv0 \in ExePaths : ParseBeginAs(argv0)
    \/ ParseEnd
    \/ PrintParams
    \/ PrintUsage

SpecHelp == Init /\ [][NextHelp]_vars

-----------------------------------------------------------------------------
(* The first generation of the header (src/cmd_line_args/cmd_line_args.h,  *)
(* impl = "legacy"): registration checks nothing but the long name of a    *)
(* named parameter, the setters only store, and parse() makes the other    *)
(* checks and fills paramsByShortName_ before its argv loop.               *)

\* One registration statement of the legacy API:
\*   parser.addParam(v, longName, help)[.shortName(c)][.optional() | .flag()];
\*   parser.addParam(v, help)[.optional()];
\* a positional parameter has the empty long name and a 1-based index_.
LegacyRegister(R, call) ==
    LET param == NewParam(call, call.shortName,
                          call.type = OPTIONAL \/ call.op = "addFlag", call.op = "addFlag")
    IN  IF call.op = "addPositional"
        THEN Ok([R EXCEPT !.positional =
                    Append(@, [param EXCEPT !.longName_ = <<>>,
                                            !.index_ = Len(R.positional) + 1])])
        ELSE IF MapHas(R.byLong, call.longName)
        THEN Throws(R, "Repeated long name parameter")
        ELSE Ok([R EXCEPT !.byLong = MapEmplace(@, call.longName, NamedRef(Len(R.named) + 1)),
                          !.named = Append(@, param)])

\* The first loop of the legacy parse(), from namedParams_[i] on: a short
\* name found in paramsByShortName_ is thrown at, any other is emplaced.
RECURSIVE LegacyShortNames(_, _)
LegacyShortNames(R, i) ==
    IF i > Len(R.named) THEN Ok(R)
    ELSE IF R.named[i].shortName_ = NUL THEN LegacyShortNames(R, i + 1)
    ELSE IF MapHas(R.byShort, R.named[i].shortName_)
    THEN Throws(R, "Repeated short name parameter")
    ELSE LegacyShortNames([R EXCEPT !.byShort = MapEmplace(@, R.named[i].shortName_,
                                                           NamedRef(i))], i + 1)

\* The legacy parse() up to its argv loop.  No parsed_ is reset.
LegacyStarted(R, heldValues) ==
    LET shortNamed == LegacyShortNames(R, 1)
        n == Len(R.positional)
        msg == IF shortNamed.err # "" THEN shortNamed.err
               ELSE IF \E i \in 1..n : R.positional[i].flag_
               THEN "Flag positional parameter"
               ELSE IF \E i \in 1..(n - 1) : R.positional[i].isList
               THEN "Not last positional list parameter"
               ELSE IF \E i, j \in 1..n : /\ i < j
                                          /\ R.positional[i].optional_
                                          /\ ~R.positional[j].optional_
               THEN "Optional positional parameter followed by non-optional"
               ELSE ""
    IN  [named |-> R.named, positional |-> R.positional,
         byShort |-> shortNamed.R.byShort, byLong |-> R.byLong,
         store |-> heldValues, pos |-> 0, cur |-> NULL,
         error |-> IF msg = "" THEN NoError ELSE Thrown(msg, NULL, <<>>),
         pc |-> IF msg = "" THEN "scan" ELSE "done"]

\* The legacy ParamImpl<T>::parse and ParamImpl<std::vector<T>>::parse: the
\* scalar throws when it was parsed before, the list is never cleared.
LegacyParamParse(param, arg, heldValue, junk) ==
    LET scalar == Convert(param.conv, arg, heldValue)
        element == Convert(param.conv, arg, junk)
    IN  IF param.isList
        THEN [value |-> Append(heldValue, element.value), parsed |-> TRUE,
              repeated |-> FALSE, bad |-> element.fail \/ ~element.eof]
        ELSE IF param.parsed_
        THEN [value |-> heldValue, parsed |-> TRUE, repeated |-> TRUE, bad |-> FALSE]
        ELSE [value |-> scalar.value, parsed |-> TRUE, repeated |-> FALSE,
              bad |-> scalar.fail \/ ~scalar.eof]

\* One iteration of the legacy argv loop, whose branches are those of the
\* fluent parser's loop, with the legacy parseArg.
LegacyStep(m, arg) ==
    LET c == ClassifyFluentIn(m, arg)
        param == DerefIn(m, c.param)
        junk == CHOOSE j \in Indeterminate(param.conv) : TRUE
        r == LegacyParamParse(param, c.text, m.store[param.value_], junk)
        bound == [SetParam(m, c.param, [param EXCEPT !.parsed_ = TRUE])
                     EXCEPT !.store[param.value_] = r.value]
    IN  CASE c.how = "error" ->
                [m EXCEPT !.error = Thrown(c.msg, NULL, arg), !.pc = "done"]
          [] c.how = "await" ->
                [m EXCEPT !.cur = c.param]
          [] OTHER ->
                IF r.repeated
                THEN [m EXCEPT !.error = Thrown("Repeated argument", c.param, c.text),
                               !.pc = "done"]
                ELSE IF r.bad
                THEN [bound EXCEPT !.error = Thrown(IF param.longName_ = <<>>
                                                    THEN "Bad positional argument"
                                                    ELSE "Bad argument", c.param, c.text),
                                   !.pc = "done"]
                ELSE [bound EXCEPT !.cur = NULL,
                                   !.pos = IF c.how = "positional" /\ ~param.isList
                                           THEN @ + 1 ELSE @]

RECURSIVE LegacyRun(_, _)
LegacyRun(m, args) ==
    IF m.pc = "done" THEN m
    ELSE IF args = <<>> THEN Finish(m)
    ELSE LegacyRun(LegacyStep(m, Head(args)), Tail(args))

\* The legacy Parser::parse on a registry, for what the caller's variables hold.
LegacyParse(R, heldValues, args) == LegacyRun(LegacyStarted(R, heldValues), args)

\* The tokens of the legacy caller's command lines:
\* -n  --ls=b  a
LegacyTokens == { <<"-", "n">>, <<"-", "-", "l", "s", "=", "b">>, <<"a">> }

LegacyRegisterCall(call) ==
    LET r == LegacyRegister(Registry, call)
    IN  /\ pc = "idle"
        /\ call.var \notin BoundVars
        /\ IF call.op = "addPositional"
           THEN Len(positionalParams) < MaxPositional
           ELSE Len(namedParams) < MaxNamed
        /\ namedParams' = r.R.named
        /\ positionalParams' = r.R.positional
        /\ paramsByShortName' = r.R.byShort
        /\ paramsByLongName' = r.R.byLong
        /\ regError' = r.err
        /\ UNCHANGED <<impl, charIsSigned, exeName_, output, store, pc, argv, currentPositionalPos, currentNamedParam,
                       error, trace, heldAtCall>>

\* The parser, the caller's variables and the locals of parse() become m.
Becomes(m) ==
    /\ namedParams' = m.named
    /\ positionalParams' = m.positional
    /\ paramsByShortName' = m.byShort
    /\ paramsByLongName' = m.byLong
    /\ store' = m.store
    /\ currentPositionalPos' = m.pos
    /\ currentNamedParam' = m.cur
    /\ error' = m.error
    /\ pc' = m.pc

\* The legacy parse() up to its argv loop.  (A list grows with every call;
\* the caller stops calling once one holds more than MaxArgs values.)
LegacyParseBegin ==
    /\ pc = "idle"
    /\ \A v \in CallerVars : CallOf(v).isList => Len(store[v]) <= MaxArgs
    /\ Becomes(LegacyStarted(Registry, store))
    /\ argv' = <<>>
    /\ trace' = <<>>
    /\ regError' = ""
    /\ heldAtCall' = store
    /\ UNCHANGED <<impl, charIsSigned, exeName_, output>>

\* One iteration of the legacy argv loop on the next token.
LegacyParseToken(arg) ==
    LET c == ClassifyFluentIn(Machine, arg)
    IN  /\ pc = "scan"
        /\ Len(argv) < MaxArgs
        /\ Becomes(LegacyStep(Machine, arg))
        /\ argv' = Append(argv, arg)
        /\ trace' = Append(trace, [how |-> c.how, param |-> c.param, text |-> c.text])
        /\ UNCHANGED <<impl, charIsSigned, exeName_, output, regError, heldAtCall>>

\* argv is exhausted: the completeness loops of the legacy parse().
LegacyParseEnd ==
    /\ pc = "scan"
    /\ Becomes(Finish(Machine))
    /\ UNCHANGED <<impl, charIsSigned, exeName_, output, regError, argv, trace, heldAtCall>>

InitLegacy ==
    /\ impl = "legacy"
    /\ charIsSigned = TRUE
    /\ Constructed

NextLegacy ==
    \/ \E call \in Calls : LegacyRegisterCall(call)
    \/ LegacyParseBegin
    \/ \E arg \in LegacyTokens : LegacyParseToken(arg)
    \/ LegacyParseEnd
    \/ Return

SpecLegacy == InitLegacy /\ [][NextLegacy]_vars

-----------------------------------------------------------------------------
(* Vocabulary of the properties: the states of the matching engine, the    *)
(* shapes of a token and the reading of a command line by the grammar      *)
(* --longName value | --longName=value | --longName | -s value | -s | bare *)

Scanning == pc = "scan" /\ currentNamedParam = NULL

AwaitingValue == pc = "scan" /\ currentNamedParam # NULL

\* A step of the argv loop, and the token it takes.
TokenStep == pc = "scan" /\ Len(argv') = Len(argv) + 1

Token == argv'[Len(argv')]

Bare(t) == Len(t) < 2 \/ t[1] # "-"

ShortForm(t) == Len(t) = 2 /\ t[1] = "-"

LongForm(t) == Len(t) > 2 /\ t[1] = "-" /\ t[2] = "-"

HasEquals(t) == \E k \in 1..Len(t) : t[k] = "="

FirstEquals(t) == CHOOSE k \in 1..Len(t) : t[k] = "=" /\ \A j \in 1..(k - 1) : t[j] # "="

LongNameOf(t) == IF HasEquals(t) THEN SubSeq(t, 3, FirstEquals(t) - 1) ELSE SubSeq(t, 3, Len(t))

ValueOf(t) == SubSeq(t, FirstEquals(t) + 1, Len(t))

AllRefs == {NamedRef(i) : i \in 1..Len(namedParams)}
               \cup {PositionalRef(i) : i \in 1..Len(positionalParams)}

\* The named descriptors a token names, by the descriptors' own fields.
Named(t) ==
    {NamedRef(i) : i \in {j \in 1..Len(namedParams) :
        \/ ShortForm(t) /\ namedParams[j].shortName_ = t[2]
        \/ LongForm(t) /\ namedParams[j].longName_ = LongNameOf(t)}}

IsFlag(d) == Deref(d).flag_

IsList(d) == Deref(d).isList

Required(d) == ~Deref(d).optional_

\* The value a descriptor's converter makes of a text, and whether it takes it.
ValueFrom(d, text) == Convert(Deref(d).conv, text, store[Deref(d).value_]).value

Accepts(d, text) ==
    LET r == Convert(Deref(d).conv, text, store[Deref(d).value_])
    IN  ~r.fail /\ r.eof

WellFormedRegistry ==
    /\ \A d, e \in AllRefs : d # e => Deref(d).longName_ # Deref(e).longName_
    /\ \A d, e \in AllRefs :
          d # e /\ Deref(d).shortName_ # NUL => Deref(d).shortName_ # Deref(e).shortName_
    /\ \A d \in AllRefs : Len(Deref(d).longName_) >= 2
    /\ \A d \in AllRefs : IsFlag(d) => ~Required(d) /\ ~IsList(d)
    /\ \A i \in 1..Len(positionalParams) :
          /\ positionalParams[i].shortName_ = NUL
          /\ ~positionalParams[i].flag_
          /\ i < Len(positionalParams) =>
                ~positionalParams[i].optional_ /\ ~positionalParams[i].isList

\* The grammar's reading of argv from token k on: the occurrences
\* (descriptor, value text) in order, whether every token fits the grammar,
\* and the option still waiting for its value at the end.
RECURSIVE Read(_, _, _, _)
Read(k, cursor, awaiting, occ) ==
    IF k > Len(argv)
    THEN [ok |-> TRUE, awaiting |-> awaiting, occ |-> occ]
    ELSE LET t == argv[k]
             d == CHOOSE r \in Named(t) : TRUE
             p == PositionalRef(cursor + 1)
         IN  IF awaiting # NULL
             THEN Read(k + 1, cursor, NULL, Append(occ, [param |-> awaiting, text |-> t]))
             ELSE IF Named(t) # {} /\ LongForm(t) /\ HasEquals(t)
             THEN Read(k + 1, cursor, NULL, Append(occ, [param |-> d, text |-> ValueOf(t)]))
             ELSE IF Named(t) # {} /\ IsFlag(d)
             THEN Read(k + 1, cursor, NULL, Append(occ, [param |-> d, text |-> <<"1">>]))
             ELSE IF Named(t) # {}
             THEN Read(k + 1, cursor, d, occ)
             ELSE IF Bare(t) /\ cursor < Len(positionalParams)
             THEN Read(k + 1, IF IsList(p) THEN cursor ELSE cursor + 1, NULL,
                       Append(occ, [param |-> p, text |-> t]))
             ELSE [ok |-> FALSE, awaiting |-> NULL, occ |-> occ]

Reading == Read(1, 0, NULL, <<>>)

\* In the reading r: the occurrences of descriptor d.
OccurrencesOf(r, d) ==
    LET Of(o) == o.param = d
    IN  SelectSeq(r.occ, Of)

\* Every token consumed so far fits the grammar and carries a value its
\* descriptor takes; Conforming: and no option is left without its value.
PrefixConforming(r) ==
    /\ r.ok
    /\ \A k \in 1..Len(r.occ) : Accepts(r.occ[k].param, r.occ[k].text)

Conforming(r) == PrefixConforming(r) /\ r.awaiting = NULL

RequiredSupplied(r) == \A d \in AllRefs : Required(d) => OccurrencesOf(r, d) # <<>>

\* No Scalar descriptor is named twice, an option still waiting for its value
\* counted.
ScalarsOnce(r) ==
    \A d \in AllRefs :
        ~IsList(d) => Len(OccurrencesOf(r, d)) + (IF r.awaiting = d THEN 1 ELSE 0) <= 1

ValuesOf(r, d) ==
    LET occ == OccurrencesOf(r, d)
    IN  [k \in 1..Len(occ) |-> ValueFrom(d, occ[k].text)]

\* Scalar: the value of the last occurrence; List: the values in order.
LastWins(r) ==
    \A d \in AllRefs :
        LET values == ValuesOf(r, d)
        IN  values # <<>> =>
                store[Deref(d).value_] = IF IsList(d) THEN values ELSE values[Len(values)]

\* parse() threw inside the argv loop (or before it).
ScanError == error.msg \notin {"", "Missing argument", "Missing positional argument"}

-----------------------------------------------------------------------------
(* Properties of the matching engine                                       *)

NothingBound == UNCHANGED <<store, namedParams, positionalParams>>

\* The step fails with the message msg about the token it took, binding nothing.
FailsWith(msg) ==
    pc' = "done" /\ error'.msg = msg /\ error'.arg = Token /\ NothingBound

\* The descriptor is marked as matched once the step is over.
ParsedAfter(d) ==
    IF d.seq = "named" THEN namedParams'[d.idx].parsed_ ELSE positionalParams'[d.idx].parsed_

\* The step feeds text to descriptor d.  If the converter takes the text, d's
\* storage is assigned (Scalar) or appended to (List, emptied first when this is
\* its first value of the invocation) and the engine is in Scanning again; if
\* not, parse() fails with a bad-value error naming d.  No other storage changes.
Fed(d, text) ==
    LET var == Deref(d).value_
        kept == IF Deref(d).parsed_ THEN store[var] ELSE <<>>
    IN  /\ ParsedAfter(d)
        /\ \A v \in CallerVars \ {var} : store'[v] = store[v]
        /\ IF Accepts(d, text)
           THEN /\ store'[var] = IF IsList(d) THEN Append(kept, ValueFrom(d, text))
                                 ELSE ValueFrom(d, text)
                /\ error' = NoError
                /\ pc' = "scan"
                /\ currentNamedParam' = NULL
           ELSE /\ pc' = "done"
                /\ error'.param = d
                /\ error'.msg \in {"Bad argument", "Bad positional argument"}

\* The step hands text to descriptor d, which takes it as above; the fluent
\* parser's Scalar refuses a second value with "Repeated argument".
Handed(d, text) ==
    IF impl = "fluent" /\ ~IsList(d) /\ Deref(d).parsed_
    THEN /\ pc' = "done"
         /\ error'.msg = "Repeated argument"
         /\ error'.param = d
         /\ store' = store
    ELSE Fed(d, text)

UnknownOption(t) == (ShortForm(t) \/ LongForm(t)) /\ Named(t) = {}

\* C2 as stated: while scanning, a token -x, --name or --name=value whose name
\* is not registered makes parse() fail with the unknown-argument error, bound
\* to no descriptor.
C2_UnknownArgumentRaised ==
    [][Scanning /\ TokenStep /\ UnknownOption(Token) => FailsWith("Unexpected argument")]_vars

\* C2, amended: that holds in the fluent parser.  The Error-based parser
\* handles such a token as a positional one: it is fed whole to the positional
\* descriptor at the cursor, and parse() fails with "Unexpected argument",
\* binding nothing, only when no positional slot remains.
C2_UnknownArgumentOrPositional ==
    [][Scanning /\ TokenStep /\ UnknownOption(Token) =>
          IF impl = "fluent" \/ currentPositionalPos >= Len(positionalParams)
          THEN FailsWith("Unexpected argument")
          ELSE Fed(PositionalRef(currentPositionalPos + 1), Token)]_vars

\* The Error-based parser has bound a token naming no registered option to a
\* positional descriptor, and parse() has succeeded.
C2_Witness ==
    /\ impl = "error" /\ pc = "done" /\ error = NoError
    /\ \E k \in 1..Len(argv) :
          /\ UnknownOption(argv[k])
          /\ trace[k].how = "positional"
          /\ store[Deref(trace[k].param).value_] = argv[k]

\* The descriptor received a value in this invocation.
Matched(d) ==
    \E k \in 1..Len(trace) :
        trace[k].param = d /\ trace[k].how \in {"value", "flag", "assign", "positional"}

Unmet == {d \in AllRefs : Required(d) /\ ~Matched(d)}

\* C3: when the scan has ended, parse() fails with the missing-argument error
\* naming an unmatched Required descriptor (named or positional) if there is
\* one, and succeeds only if every Required descriptor was matched.
C3_MissingArgumentIffUnmet ==
    pc = "done" /\ ~ScanError =>
        IF Unmet = {}
        THEN error = NoError
        ELSE /\ error.param \in Unmet
             /\ error.arg = <<>>
             /\ error.msg = IF error.param.seq = "named" THEN "Missing argument"
                            ELSE "Missing positional argument"

\* Every named Required descriptor was matched, a positional one was not, and
\* parse() has reported it.
C3_Witness ==
    /\ pc = "done" /\ error.msg = "Missing positional argument"
    /\ error.param \in Unmet
    /\ \E d \in AllRefs : d.seq = "named" /\ Required(d) /\ Matched(d)

\* C4: in AwaitingValueFor(d) the next token is handed whole to d as its
\* value whatever it looks like (an option, a name=value form, a bare word),
\* the positional cursor does not move, and once d has taken the value the
\* engine is in Scanning again.
C4_AwaitedValueConsumedWhole ==
    [][AwaitingValue /\ TokenStep =>
          /\ Handed(currentNamedParam, Token)
          /\ currentPositionalPos' = currentPositionalPos]_vars

\* A token naming a registered option was taken as the value of the option
\* before it.
C4_Witness ==
    /\ pc = "scan" /\ currentNamedParam = NULL /\ error = NoError
    /\ \E k \in 1..Len(argv) :
          /\ trace[k].how = "value"
          /\ Named(argv[k]) # {}
          /\ trace[k].param \notin Named(argv[k])
          /\ store[Deref(trace[k].param).value_] = argv[k]

\* The positional descriptor the j-th positional token belongs to: the j-th
\* one, or the List before it that keeps the cursor.
Slot(j) ==
    LET lists == {i \in 1..Len(positionalParams) : positionalParams[i].isList /\ i <= j}
    IN  IF lists = {} THEN j ELSE SetMin(lists)

\* How many of the first k tokens are bare tokens met while scanning.
BareRank(k) == Cardinality({i \in 1..k : Bare(argv[i]) /\ trace[i].how # "value"})

\* How many of the first k tokens were handled as positional ones.
PositionalRank(k) == Cardinality({i \in 1..k : trace[i].how = "positional"})

\* C5 as stated: bare tokens are bound to the positional descriptors in
\* registration order, so the i-th bare token binds the i-th Scalar positional
\* and every bare token from the List's slot on is appended to the List.
C5_BareTokensInOrder ==
    \A k \in 1..Len(argv) :
        Bare(argv[k]) /\ trace[k].how # "value" /\ Slot(BareRank(k)) <= Len(positionalParams)
            => /\ trace[k].how = "positional"
               /\ trace[k].param = PositionalRef(Slot(BareRank(k)))

\* A token the Error-based parser can match to a named descriptor: it names a
\* List, or a Scalar not yet matched in this invocation.
Matchable(t) == \E d \in Named(t) : IsList(d) \/ ~Deref(d).parsed_

HandledAsPositional(t) == Bare(t) \/ (impl = "error" /\ ~Matchable(t))

PositionalStep ==
    /\ Scanning /\ TokenStep /\ HandledAsPositional(Token)
    /\ currentPositionalPos < Len(positionalParams)

\* C5, amended: the tokens handled as positional ones (the bare tokens and, in
\* the Error-based parser, also the option-looking tokens that name no
\* registered option or a Scalar already matched) are bound to the positional
\* descriptors in registration order.  Each is fed whole to the descriptor at
\* the cursor; the cursor advances after a Scalar and stays on a List, and
\* moves on no other step; so the i-th such token binds the i-th Scalar
\* positional and every one from the List's slot on is appended to the List.
C5_PositionalTokensInOrder ==
    /\ [][PositionalStep =>
             /\ Fed(PositionalRef(currentPositionalPos + 1), Token)
             /\ error' = NoError =>
                   currentPositionalPos' =
                       IF positionalParams[currentPositionalPos + 1].isList
                       THEN currentPositionalPos ELSE currentPositionalPos + 1]_vars
    /\ [][pc = "scan" /\ ~PositionalStep => currentPositionalPos' = currentPositionalPos]_vars
    /\ [][(\A k \in 1..Len(trace) :
               trace[k].how = "positional" =>
                   /\ trace[k].param = PositionalRef(Slot(PositionalRank(k)))
                   /\ trace[k].text = argv[k])']_vars

\* Three bare tokens: the first bound to the Scalar positional, the next two
\* appended in order to the List after it.
C5_Witness ==
    /\ pc = "scan" /\ error = NoError /\ Len(argv) = 3 /\ Len(positionalParams) = 2
    /\ \A k \in 1..3 : Bare(argv[k]) /\ trace[k].how = "positional"
    /\ argv[2] # argv[3]
    /\ ~positionalParams[1].isList /\ positionalParams[2].isList
    /\ store[positionalParams[1].value_] = argv[1]
    /\ store[positionalParams[2].value_] = <<argv[2], argv[3]>>
    /\ currentPositionalPos = 1

\* C6: while scanning, a bare token met when the cursor is past the last
\* positional descriptor (or none is registered) makes parse() fail with the
\* unexpected-argument error about that token, and the token is bound to
\* nothing.
C6_UnexpectedPositional ==
    [][Scanning /\ TokenStep /\ Bare(Token)
          /\ currentPositionalPos >= Len(positionalParams)
          => FailsWith(IF impl = "fluent" THEN "Unexpected positional argument"
                       ELSE "Unexpected argument")]_vars

\* A bare token after the only positional descriptor was filled: parse()
\* has failed on it and the filled descriptor kept its value.
C6_Witness ==
    /\ pc = "done" /\ Len(argv) >= 2 /\ Len(positionalParams) = 1
    /\ error.msg \in {"Unexpected positional argument", "Unexpected argument"}
    /\ error.arg = argv[Len(argv)] /\ Bare(argv[Len(argv)])
    /\ currentPositionalPos = 1
    /\ \E k \in 1..(Len(argv) - 1) :
          trace[k].how = "positional" /\ store[positionalParams[1].value_] = argv[k]

\* C7 as stated: while scanning, a token -s or --name that names a flag is
\* handed to the flag as "true" at once: the flag is bound to true, no
\* following token is consumed (the engine is in Scanning again) and the
\* cursor does not move.  Every flag is Optional, so the missing-argument error
\* never names a flag.
C7_FlagBindsTrue ==
    /\ [][Scanning /\ TokenStep /\ ~HasEquals(Token) =>
             \A d \in Named(Token) :
                 IsFlag(d) =>
                     /\ Handed(d, <<"1">>)
                     /\ error' = NoError => store'[Deref(d).value_] = TRUE
                     /\ currentPositionalPos' = currentPositionalPos]_vars
    /\ [][(\A d \in AllRefs : IsFlag(d) => ~Required(d))']_vars
    /\ [][(error.msg \in {"Missing argument", "Missing positional argument"}
              => ~IsFlag(error.param))']_vars

\* C8 as stated: while scanning, a token --name=value is split at its first
\* "=" only: the text between "--" and that "=" is the long name looked up, and
\* all the text after it (further "=" included) is handed to that descriptor
\* as its value in the same step, after which the engine is in Scanning.
C8_AssignSplitsAtFirstEquals ==
    [][Scanning /\ TokenStep /\ LongForm(Token) /\ HasEquals(Token) =>
          \A d \in Named(Token) :
              /\ Handed(d, ValueOf(Token))
              /\ currentPositionalPos' = currentPositionalPos]_vars

\* C9 as stated: when a Scalar descriptor occurs more than once in a command
\* line that fits the grammar, no token makes parse() throw and the Scalar
\* holds the value of its last occurrence.
C9_LaterOccurrenceOverwrites ==
    pc = "done" =>
        LET r == Reading
        IN  PrefixConforming(r) /\ WellFormedRegistry =>
                \A d \in AllRefs :
                    ~IsList(d) /\ Len(OccurrencesOf(r, d)) >= 2 =>
                        /\ ~ScanError
                        /\ store[Deref(d).value_] = ValuesOf(r, d)[Len(ValuesOf(r, d))]

\* The step names, or brings the awaited value of, a Scalar descriptor that
\* already received a value in this invocation.
RepeatStep(d) ==
    /\ TokenStep /\ ~IsList(d) /\ Deref(d).parsed_
    /\ (Scanning /\ d \in Named(Token)) \/ currentNamedParam = d

\* C9, amended: a later occurrence of a Scalar never overwrites: the binding
\* keeps the value of the first occurrence.  The fluent parser fails with
\* "Repeated argument" naming the descriptor when the second value arrives;
\* the Error-based parser handles the token of the second occurrence as a
\* positional one (so it fails with "Unexpected argument" when no positional
\* slot remains).
C9_FirstOccurrenceKept ==
    [][\A d \in AllRefs :
          RepeatStep(d) =>
              /\ store'[Deref(d).value_] = store[Deref(d).value_]
              /\ IF impl = "error"
                 THEN IF currentPositionalPos < Len(positionalParams)
                      THEN Fed(PositionalRef(currentPositionalPos + 1), Token)
                      ELSE FailsWith("Unexpected argument")
                 ELSE IF Scanning /\ ~IsFlag(d) /\ ~HasEquals(Token)
                 THEN currentNamedParam' = d /\ error' = NoError /\ pc' = "scan"
                 ELSE /\ pc' = "done"
                      /\ error'.msg = "Repeated argument"
                      /\ error'.param = d]_vars

\* The fluent parser has refused the second, different value of a Scalar
\* option, which still holds its first one.
C9_Witness ==
    /\ pc = "done" /\ error.msg = "Repeated argument" /\ ~IsFlag(error.param)
    /\ \E k \in 1..(Len(trace) - 1) :
          /\ trace[k].param = error.param
          /\ trace[k].how \in {"value", "assign"}
          /\ trace[k].text # error.arg
          /\ store[Deref(error.param).value_] = trace[k].text

\* C10 as stated: parse() fails whenever a Scalar named parameter is given a
\* value more than once in one invocation, whatever the forms used.
C10_RepeatedArgumentThrows ==
    pc = "done" =>
        LET r == Reading
        IN  PrefixConforming(r) /\ WellFormedRegistry =>
                \A d \in AllRefs :
                    /\ d.seq = "named" /\ ~IsList(d) /\ ~IsFlag(d)
                    /\ Len(OccurrencesOf(r, d)) >= 2
                    => error # NoError

\* The values handed to descriptor d in this invocation, in order.
ValuesHanded(d) ==
    LET Of(e) == e.param = d /\ e.how \in {"value", "assign", "positional"}
        handed == SelectSeq(trace, Of)
    IN  [k \in 1..Len(handed) |-> ValueFrom(d, handed[k].text)]

AllAccepted(d) ==
    \A k \in 1..Len(trace) :
        trace[k].param = d /\ trace[k].how \in {"value", "assign", "positional"}
            => Accepts(d, trace[k].text)

\* C11: every occurrence of a List named parameter, as --name value,
\* --name=value or -s value, appends one value: the name alone makes the
\* engine await the value, the value (awaited or after "=") is fed to the
\* list; and the list holds exactly the values of this invocation in the order
\* met.
C11_ListAccumulatesInOrder ==
    /\ [][Scanning /\ TokenStep =>
             \A d \in Named(Token) :
                 IsList(d) =>
                     IF LongForm(Token) /\ HasEquals(Token)
                     THEN Fed(d, ValueOf(Token))
                     ELSE /\ currentNamedParam' = d
                          /\ NothingBound
                          /\ error' = NoError /\ pc' = "scan"]_vars
    /\ [][AwaitingValue /\ TokenStep /\ IsList(currentNamedParam)
             => Fed(currentNamedParam, Token)]_vars
    /\ [][(\A d \in AllRefs :
               d.seq = "named" /\ IsList(d) /\ Matched(d) /\ AllAccepted(d)
                   => store[Deref(d).value_] = ValuesHanded(d))']_vars

\* The list option was given as -s value and then as --name=value: it holds
\* the two values in that order and nothing it held before.
C11_Witness ==
    /\ pc = "done" /\ error = NoError /\ Len(argv) = 3
    /\ ShortForm(argv[1]) /\ LongForm(argv[3]) /\ HasEquals(argv[3])
    /\ \E d \in Named(argv[1]) \cap Named(argv[3]) :
          /\ IsList(d)
          /\ argv[2] # ValueOf(argv[3])
          /\ store[Deref(d).value_] = <<argv[2], ValueOf(argv[3])>>

\* The command line has ended on an option still awaiting its value.
EndedAwaiting ==
    /\ pc = "done" /\ currentNamedParam # NULL
    /\ trace # <<>> /\ trace[Len(trace)].how = "await"

\* C12 as stated: when the command line ends on an option d still awaiting
\* its value, parse() fails with an error of its own, which is not the
\* missing-argument error, whether d is Required or Optional.
C12_DanglingOptionReported ==
    EndedAwaiting =>
        error.msg \notin {"", "Missing argument", "Missing positional argument"}

\* A token of one dash and more than one further character, like -string.
DashWord(t) == Len(t) > 2 /\ t[1] = "-" /\ t[2] # "-"

\* C13 as stated: while scanning, a token that begins with a single dash, is
\* longer than two characters and has no dash second makes parse() fail; it
\* is not taken as a named option and is bound to nothing.
C13_DashWordRejected ==
    [][Scanning /\ TokenStep /\ DashWord(Token) =>
          /\ pc' = "done" /\ (ScanError)'
          /\ error'.arg = Token
          /\ NothingBound]_vars

\* C13, amended: the fluent parser fails on such a token with "Bad argument",
\* binding nothing.  The Error-based parser never takes it as a named option
\* either, but handles it as a positional token: it is fed whole to the
\* positional descriptor at the cursor, and parse() fails on it (with
\* "Unexpected argument", binding nothing) only when no positional slot
\* remains.
C13_DashWordRejectedOrPositional ==
    [][Scanning /\ TokenStep /\ DashWord(Token) =>
          IF impl = "fluent"
          THEN FailsWith("Bad argument")
          ELSE IF currentPositionalPos >= Len(positionalParams)
          THEN FailsWith("Unexpected argument")
          ELSE Fed(PositionalRef(currentPositionalPos + 1), Token)]_vars

\* The fluent parser has failed on a single-dash word although a positional
\* slot was free for it; the positional before it keeps its value.
C13_Witness ==
    /\ impl = "fluent" /\ pc = "done" /\ Len(argv) = 2
    /\ error.msg = "Bad argument" /\ error.param = NULL
    /\ DashWord(argv[2]) /\ error.arg = argv[2]
    /\ trace[1].how = "positional"
    /\ currentPositionalPos < Len(positionalParams)
    /\ store[positionalParams[1].value_] = argv[1]

\* A token that looks like an option (-x, --name, --name=value, -7) and names
\* no registered named parameter.
Unresolved(t) == ~Bare(t) /\ Named(t) = {}

\* C14: in the Error-based parser a token met while scanning that looks like
\* an option but names no registered named parameter is an ordinary positional
\* value: it is fed whole to the positional descriptor at the cursor (which
\* then advances unless that descriptor is a List), and parse() fails on it,
\* binding nothing, only when no positional slot remains.
C14_UnresolvedOptionIsPositional ==
    [][impl = "error" /\ Scanning /\ TokenStep /\ Unresolved(Token) =>
          IF currentPositionalPos < Len(positionalParams)
          THEN /\ Fed(PositionalRef(currentPositionalPos + 1), Token)
               /\ error' = NoError =>
                     currentPositionalPos' =
                         IF positionalParams[currentPositionalPos + 1].isList
                         THEN currentPositionalPos ELSE currentPositionalPos + 1
          ELSE FailsWith("Unexpected argument")]_vars

\* As in the sample's command line (--posStr=OK -7): a --name=value token and
\* a single-dash word, neither naming a registered option, are the values of
\* the first and the second positional parameter.
C14_Witness ==
    /\ impl = "error" /\ pc = "done" /\ error = NoError
    /\ Len(argv) = 2 /\ Len(positionalParams) = 2
    /\ LongForm(argv[1]) /\ HasEquals(argv[1]) /\ Unresolved(argv[1])
    /\ DashWord(argv[2]) /\ Unresolved(argv[2])
    /\ store[positionalParams[1].value_] = argv[1]
    /\ store[positionalParams[2].value_] = <<argv[2]>>

-----------------------------------------------------------------------------
(* Properties of registration                                              *)

\* The registration statements of the public API with the given long and
\* short names, of both requirednesses and both arities (a positional has no
\* short name).
CallsOver(longNames, shortNames) ==
    { call \in { T(ln, op, "name", sn, type, isList, "string") :
                     ln \in longNames,
                     op \in {"addParam", "addFlag", "addPositional"},
                     sn \in shortNames \cup {NUL},
                     type \in {REQUIRED, OPTIONAL},
                     isList \in BOOLEAN } :
        call.op = "addPositional" => call.shortName = NUL }

AnyCalls ==
    CallsOver({<<>>, <<"x">>, <<"n", "m">>, <<"a", "b">>, <<"f", "i", "l", "e">>},
              {" ", "n", "x"})

\* What the statement would throw in the present registry ("" if nothing).
ErrorOf(call) == Register(impl, Registry, call).err

DuplicateLongName == {"Repeated parameter long name", "Repeated long name parameter"}

DuplicateShortName == {"Repeated parameter short name", "Repeated short name parameter"}

LongNameTooShort == {"Too short long name parameter"}

InvalidShortName == {"Bad short name for parameter"}

\* Some registered descriptor, named or positional, has this long name.
LongNameInUse(name) == \E d \in AllRefs : Deref(d).longName_ = name

\* The short name is one the parser in use takes.
ShortNameTaken(c) ==
    IF impl = "error" THEN ~BadShortNameCtor(c)
    ELSE c = NUL \/ ~(CharCode(c) <= CharCode(" ") \/ CharCode(c) > 127)

\* C16 as stated: a registration whose long name is that of a registered
\* descriptor fails with the duplicate-long-name error whatever the kind,
\* arity, requiredness, short name and flag of the two (the new statement being
\* well formed otherwise).
C16_DuplicateLongNameRejected ==
    \A call \in AnyCalls :
        LongNameInUse(call.longName) /\ Len(call.longName) >= 2
        /\ ShortNameTaken(call.shortName)
            => ErrorOf(call) \in DuplicateLongName

\* C16, amended: that holds among named descriptors.  Registering a named
\* parameter or a flag whose long name is that of a registered named
\* descriptor fails with the duplicate-long-name error whatever the other
\* attributes of the two (the Error-based parser reports an invalid short name
\* first); a positional descriptor is never checked: no positional
\* registration fails with that error, and a long name held only by
\* positional descriptors can be registered again.
C16_DuplicateNamedLongNameRejected ==
    \A call \in AnyCalls :
        IF call.op # "addPositional" /\ MapHas(paramsByLongName, call.longName)
        THEN ErrorOf(call) \in
                 IF ShortNameTaken(call.shortName) \/ impl = "fluent"
                 THEN DuplicateLongName ELSE InvalidShortName
        ELSE ErrorOf(call) \notin DuplicateLongName

\* A registration was refused for its long name: the one named descriptor
\* registered before holds that name alone.
C16_Witness ==
    /\ regError \in DuplicateLongName
    /\ Len(namedParams) = 1 /\ Len(paramsByLongName) = 1
    /\ paramsByLongName[1][1] = namedParams[1].longName_

\* Some registered descriptor has this short name.
ShortNameInUse(c) ==
    c # NUL /\ \E i \in 1..Len(namedParams) : namedParams[i].shortName_ = c

\* C17: registering a named parameter or a flag whose short name is that of
\* a registered descriptor fails with the duplicate-short-name error even
\* though its long name is new (and long enough).
C17_DuplicateShortNameRejected ==
    \A call \in AnyCalls :
        (/\ call.op # "addPositional"
         /\ ShortNameInUse(call.shortName)
         /\ Len(call.longName) >= 2 /\ ~LongNameInUse(call.longName))
            => ErrorOf(call) \in DuplicateShortName

\* A registration was refused for its short name after one with that short
\* name had succeeded; the index still leads to the first.
C17_Witness ==
    /\ regError \in DuplicateShortName
    /\ Len(paramsByShortName) = 1
    /\ paramsByShortName[1][2] = NamedRef(1)
    /\ namedParams[1].shortName_ = paramsByShortName[1][1]
    /\ Len(namedParams) = IF impl = "error" THEN 1 ELSE 2

\* C18: registering a named parameter or a flag whose long name has fewer
\* than 2 characters fails with the too-short-long-name error (the Error-based
\* parser reports an invalid short name of the same statement first), and no
\* long name of 2 or more characters is refused by this check.
C18_LongNameTooShortRejected ==
    \A call \in AnyCalls :
        call.op # "addPositional" =>
            IF Len(call.longName) < 2
            THEN ErrorOf(call) \in
                     IF ShortNameTaken(call.shortName) \/ impl = "fluent"
                     THEN LongNameTooShort ELSE InvalidShortName
            ELSE ErrorOf(call) \notin LongNameTooShort

\* A long name of two characters was registered, then a shorter one refused.
C18_Witness ==
    /\ regError \in LongNameTooShort
    /\ Len(namedParams) = 1 /\ Len(namedParams[1].longName_) = 2
    /\ Len(paramsByLongName) = 1

\* Named registrations under a long name of two characters with every short
\* name of the model.
ShortNameCalls ==
    CallsOver({<<"n", "m">>, <<"a", "b">>},
              {"SOH", " ", "!", "n", "x", "DEL", "x80", "xFF"})

\* The character code, 0..255, of a short name.
ByteOf(c) == IF CharCode(c) < 0 THEN CharCode(c) + 256 ELSE CharCode(c)

\* C19 as stated: registering a named parameter or a flag (under a long name
\* that is long enough and new) with a short name whose character code is 32
\* or less or greater than 127 fails with the invalid-short-name error, and no
\* short name with a code in 33..127 is refused by this check.
C19_InvalidShortNameRejected ==
    \A call \in ShortNameCalls :
        (/\ call.op # "addPositional"
         /\ call.shortName # NUL
         /\ ~LongNameInUse(call.longName))
            => IF ByteOf(call.shortName) <= 32 \/ ByteOf(call.shortName) > 127
               THEN ErrorOf(call) \in InvalidShortName
               ELSE ErrorOf(call) \notin InvalidShortName

PositionalOrderViolation ==
    {"Optional positional parameter followed by another positional parameter",
     "Positional list parameter followed by another positional parameter"}

\* An Optional or a List positional descriptor is registered.
OptionalOrListRegistered ==
    \E i \in 1..Len(positionalParams) :
        positionalParams[i].optional_ \/ positionalParams[i].isList

\* C20: in the Error-based parser registering a
\* positional fails with the positional-order error, adding nothing, whenever
\* an Optional or a List positional is already registered, whatever the arity
\* and requiredness of the new one, and otherwise succeeds, adding it last:
\* [Required, Optional] and [Scalar, List] register, [Optional, Required]
\* and [List, Scalar] fail at the second statement.
C20_PositionalAfterOptionalOrListRejected ==
    impl = "error" =>
        \A call \in AnyCalls :
            call.op = "addPositional" =>
                LET r == Register(impl, Registry, call)
                IN  IF OptionalOrListRegistered
                    THEN r.err \in PositionalOrderViolation /\ r.R = Registry
                    ELSE /\ r.err = ""
                         /\ Len(r.R.positional) = Len(positionalParams) + 1
                         /\ r.R.positional[Len(r.R.positional)].longName_ = call.longName
                         /\ r.R.positional[Len(r.R.positional)].isList = call.isList
                         /\ r.R.positional[Len(r.R.positional)].optional_
                                = (call.type = OPTIONAL)

\* A Required List positional was registered and the positional after it
\* refused.
C20_Witness ==
    /\ impl = "error"
    /\ regError \in PositionalOrderViolation
    /\ Len(positionalParams) = 1
    /\ positionalParams[1].isList /\ ~positionalParams[1].optional_

-----------------------------------------------------------------------------
(* Interleaving of options and positional tokens                           *)

\* The token names a registered option that takes its value from the next
\* token.
TakesNextToken(t) ==
    /\ ~Bare(t) /\ ~(LongForm(t) /\ HasEquals(t))
    /\ \E d \in Named(t) : ~IsFlag(d)

\* A command line cut into its units: an option with the value after it, an
\* option that needs none (a flag, --name=value), any other token alone.
RECURSIVE Units(_)
Units(args) ==
    IF args = <<>> THEN <<>>
    ELSE IF TakesNextToken(Head(args)) /\ Len(args) >= 2
    THEN <<SubSeq(args, 1, 2)>> \o Units(SubSeq(args, 3, Len(args)))
    ELSE <<<<Head(args)>>>> \o Units(Tail(args))

OptionUnit(u) == ~Bare(u[1])

\* Every token is a bare one, a registered option or the value of one, and
\* every option that takes a value is followed by it.
Grouped(args) ==
    \A k \in 1..Len(Units(args)) :
        LET u == Units(args)[k]
        IN  OptionUnit(u) => Named(u[1]) # {} /\ (TakesNextToken(u[1]) => Len(u) = 2)

\* No two units name the same Scalar option.
NoScalarTwice(args) ==
    \A i, j \in 1..Len(Units(args)) :
        i < j /\ OptionUnit(Units(args)[i]) /\ OptionUnit(Units(args)[j]) =>
            \A d \in Named(Units(args)[i][1]) \cap Named(Units(args)[j][1]) : IsList(d)

RECURSIVE Flat(_)
Flat(us) == IF us = <<>> THEN <<>> ELSE Head(us) \o Flat(Tail(us))

\* The command lines made of the same units, with the options (and their
\* values) at other places among the bare tokens: the bare tokens keep their
\* order, and so do the options.
Interleavings(args) ==
    LET us == Units(args)
        n == Len(us)
        Keeps(f) == \A i, j \in 1..n :
                        i < j => /\ f[i] # f[j]
                                 /\ OptionUnit(us[f[i]]) = OptionUnit(us[f[j]])
                                        => f[i] < f[j]
    IN  {Flat([k \in 1..n |-> us[f[k]]]) : f \in {g \in [1..n -> 1..n] : Keeps(g)}}

InitialStore == [v \in CallerVars |-> InitialValue(v)]

\* C15 as stated: for a command line in which every option is followed by
\* its value, putting the options (with their values) at other places among
\* the bare tokens changes neither whether parse() succeeds nor any value
\* bound.
C15_InterleavingChangesNothing ==
    pc = "done" /\ Grouped(argv) =>
        \A moved \in Interleavings(argv) :
            LET m == Parse(moved, InitialStore)
            IN  /\ (m.error = NoError) <=> (error = NoError)
                /\ m.store = store

\* C15, amended: parse() is a function of the registry, the command line and
\* what the variables held; and for a command line that parse() accepts, in
\* which every option is followed by its value and no Scalar option is named
\* twice, every such rearrangement is accepted too and binds the same values.
\* (When parse() fails, what was bound before the failing token stays bound,
\* and that depends on where the options stand.)
C15_AcceptedInterleavingBindsSame ==
    pc = "done" =>
        /\ LET ran == Parse(argv, InitialStore)
           IN  /\ ran.error = error /\ ran.store = store
               /\ ran.named = namedParams /\ ran.positional = positionalParams
               /\ ran.pos = currentPositionalPos /\ ran.cur = currentNamedParam
        /\ error = NoError /\ Grouped(argv) /\ NoScalarTwice(argv) =>
               \A moved \in Interleavings(argv) :
                   LET m == Parse(moved, InitialStore)
                   IN  m.error = NoError /\ m.store = store

\* As in the scenarios: an option with its value before a bare token was
\* accepted, and so is the command line with the bare token first.
C15_Witness ==
    /\ pc = "done" /\ error = NoError /\ Len(argv) = 3
    /\ Grouped(argv) /\ NoScalarTwice(argv)
    /\ TakesNextToken(argv[1]) /\ Bare(argv[3]) /\ argv[2] # argv[3]
    /\ trace[3].how = "positional"
    /\ <<argv[3], argv[1], argv[2]>> \in Interleavings(argv)
    /\ store[Deref(trace[2].param).value_] = argv[2]
    /\ store[Deref(trace[3].param).value_] = argv[3]
    /\ Parse(<<argv[3], argv[1], argv[2]>>, InitialStore).store = store

-----------------------------------------------------------------------------
(* Properties of repeated parse() calls                                    *)

\* The registry as the registration statements left it: nothing parsed and,
\* in the legacy header, paramsByShortName_ still empty.
AsRegistered ==
    [named |-> [i \in 1..Len(namedParams) |-> [namedParams[i] EXCEPT !.parsed_ = FALSE]],
     positional |-> [i \in 1..Len(positionalParams) |->
                        [positionalParams[i] EXCEPT !.parsed_ = FALSE]],
     byShort |-> IF impl = "legacy" THEN <<>> ELSE paramsByShortName,
     byLong |-> paramsByLongName]

\* What parse() throws on a command line when it is the first call made on
\* the registry.
FreshOutcome(args) ==
    IF impl = "legacy"
    THEN LegacyParse(AsRegistered, InitialStore, args).error
    ELSE Parse(args, InitialStore).error

\* C21: the outcome of a parse() call (success, or which error) depends only
\* on the registry and on the tokens of that call: it is the outcome the same
\* tokens have on the registry when nothing was parsed before.
C21_OutcomeDependsOnTokensOnly ==
    pc = "done" => error = FreshOutcome(argv)

\* C22: once a parse() call has touched a List parameter, the list is
\* determined by the tokens of that call alone: it is what the same tokens
\* bind when the caller's variables hold their defaults, and, every value
\* accepted, it is the values handed to it in this call, whatever the
\* variable held when parse() was called.
C22_TouchedListHoldsNewValuesOnly ==
    \A d \in AllRefs :
        IsList(d) /\ Matched(d) =>
            /\ store[Deref(d).value_] = Parse(argv, InitialStore).store[Deref(d).value_]
            /\ AllAccepted(d) => store[Deref(d).value_] = ValuesHanded(d)

\* A later call has touched a list that held two values bound by an earlier
\* call: it holds the one new value.
C22_Witness ==
    /\ pc = "done" /\ error = NoError
    /\ \E d \in AllRefs :
          /\ IsList(d) /\ Matched(d)
          /\ heldAtCall[Deref(d).value_] # InitialValue(Deref(d).value_)
          /\ Len(heldAtCall[Deref(d).value_]) = 2
          /\ Len(store[Deref(d).value_]) = 1
          /\ store[Deref(d).value_][1] \notin
                 {heldAtCall[Deref(d).value_][k] : k \in 1..2}

\* The running or finished parse() call has handed no token to any
\* descriptor bound to the caller's variable v.
Untouched(v) == \A d \in AllRefs : Deref(d).value_ = v => ~Matched(d)

\* C23: a parse() call leaves the variable of every descriptor to which it
\* hands no token as it was when the call began (a scalar or a flag keeps its
\* value, a list keeps the values of an earlier call).
C23_UntouchedStorageUnchanged ==
    \A v \in CallerVars : Untouched(v) => store[v] = heldAtCall[v]

\* A call has bound one parameter and has finished without touching a list
\* that an earlier call had filled: the list holds what it held.
C23_Witness ==
    /\ pc = "done"
    /\ \E d, e \in AllRefs :
          /\ IsList(d) /\ ~Matched(d)
          /\ heldAtCall[Deref(d).value_] # InitialValue(Deref(d).value_)
          /\ store[Deref(d).value_] = heldAtCall[Deref(d).value_]
          /\ Matched(e)
          /\ store[Deref(e).value_] # heldAtCall[Deref(e).value_]

\* The step ends the running parse() with a throw.
Fails == pc = "scan" /\ pc' = "done" /\ error' # NoError

\* C24: when parse() throws, at a token or at the end of the command line,
\* what the tokens before had bound stays bound: the variable of a scalar or
\* flag matched before is not written, and the values a list took before
\* stay at its front.
C24_NoRollbackOnFailure ==
    [][Fails =>
          \A d \in AllRefs :
              Matched(d) =>
                  IF IsList(d)
                  THEN /\ Len(store'[Deref(d).value_]) >= Len(store[Deref(d).value_])
                       /\ SubSeq(store'[Deref(d).value_], 1, Len(store[Deref(d).value_]))
                              = store[Deref(d).value_]
                  ELSE store'[Deref(d).value_] = store[Deref(d).value_]]_vars

\* parse() has thrown at its third token; the scalar bound by the first two
\* holds the new value.
C24_Witness ==
    /\ pc = "done" /\ error # NoError /\ Len(argv) = 3
    /\ error.arg = argv[3]
    /\ \E d \in AllRefs :
          /\ ~IsList(d)
          /\ trace[2].param = d /\ trace[2].how = "value"
          /\ store[Deref(d).value_] = argv[2]
          /\ heldAtCall[Deref(d).value_] # argv[2]

-----------------------------------------------------------------------------
(* Properties of conversion                                                *)

\* The entry the step has added to the trace, a token handed to a descriptor.
Dispatched == trace'[Len(trace')]

DispatchStep ==
    TokenStep /\ Dispatched.how \in {"value", "assign", "positional"}

\* The text the step hands over is the token, or what follows its first "=".
HandsTokenOver ==
    Dispatched.text = IF Dispatched.how = "assign" THEN ValueOf(Token) ELSE Token

\* "high, low"
HighLow == <<"h", "i", "g", "h", ",", " ", "l", "o", "w">>

\* C25: a token handed to a parameter backed by the enumeration
\* {low -> LOW, high -> HIGH} binds LOW when it is `low` and HIGH when it is
\* `high`; any other token makes parse() throw the bad-value error, which
\* carries the token and the literals sorted and joined by ", ": `high, low`.
C25_EnumBindsKeyOrReportsValidValues ==
    [][impl = "error" /\ DispatchStep /\ Deref(Dispatched.param).conv = "enum" =>
          /\ HandsTokenOver
          /\ CASE Dispatched.text = <<"l", "o", "w">> ->
                      /\ store'[Deref(Dispatched.param).value_] = <<"LOW">>
                      /\ error' = NoError /\ pc' = "scan"
               [] Dispatched.text = <<"h", "i", "g", "h">> ->
                      /\ store'[Deref(Dispatched.param).value_] = <<"HIGH">>
                      /\ error' = NoError /\ pc' = "scan"
               [] OTHER ->
                      /\ pc' = "done"
                      /\ error'.msg \in {"Bad argument", "Bad positional argument"}
                      /\ error'.param = Dispatched.param
                      /\ error'.arg = Dispatched.text
                      /\ error'.valid = HighLow]_vars

\* `--nm=low mid`: the named parameter holds LOW, and parse() has thrown at
\* `mid`, handed to the positional one, naming `high, low`.
C25_Witness ==
    /\ impl = "error" /\ pc = "done" /\ Len(argv) = 2
    /\ \E d \in AllRefs : Deref(d).conv = "enum" /\ store[Deref(d).value_] = <<"LOW">>
    /\ trace[2].how = "positional" /\ Deref(trace[2].param).conv = "enum"
    /\ error.arg = <<"m", "i", "d">> /\ argv[2] = <<"m", "i", "d">>
    /\ error.valid = HighLow

\* The step hands a text to a text-valued descriptor that converts it (the
\* fluent parser's Scalar refuses a second value before any conversion).
TextFed ==
    /\ DispatchStep
    /\ Deref(Dispatched.param).conv = "string"
    /\ ~(impl = "fluent" /\ ~IsList(Dispatched.param) /\ Deref(Dispatched.param).parsed_)

\* The step has bound the text it handed over, as it is.
BoundVerbatim ==
    /\ HandsTokenOver
    /\ error' = NoError /\ pc' = "scan"
    /\ IF IsList(Dispatched.param)
       THEN /\ store'[Deref(Dispatched.param).value_] # <<>>
            /\ store'[Deref(Dispatched.param).value_]
                     [Len(store'[Deref(Dispatched.param).value_])] = Dispatched.text
       ELSE store'[Deref(Dispatched.param).value_] = Dispatched.text

\* C26: every token handed to a text-valued parameter, a token with spaces
\* in it or the empty text of `--name=` included, is converted without error
\* and bound exactly as it is.
C26_TextBoundVerbatim ==
    [][TextFed => BoundVerbatim]_vars

\* What does hold: a text that is not empty and has no line feed in it is
\* bound as it is.
TextOfOneLineBound ==
    [][TextFed /\ Dispatched.text # <<>> /\ Find(Dispatched.text, "\n") = 0
          => BoundVerbatim]_vars

-----------------------------------------------------------------------------
(* Properties of the registry                                              *)

\* The statement registers a positional parameter and chains .shortName() or
\* .flag() to it.
ChainsToPositional(call) ==
    call.op = "addPositional" /\ (call.shortName # NUL \/ call.type = FLAG)

PositionalChainRefused(call) ==
    ErrorOf(call) = IF call.shortName # NUL THEN "Short name for positional parameter"
                    ELSE "Flag positional parameter"

\* C27: in the fluent parser Param::shortName() and Param::flag() throw on a
\* positional parameter, whatever its position, so that no positional
\* parameter is ever a flag or has a short name.
C27_PositionalNeverFlagNorShortNamed ==
    /\ \A call \in ChainCalls :
           ChainsToPositional(call) /\ ErrorOf(call) # "Repeated positional list parameter"
               => PositionalChainRefused(call)
    /\ \A i \in 1..Len(positionalParams) :
           ~positionalParams[i].flag_ /\ positionalParams[i].shortName_ = NUL

\* What does hold: the setters throw on every positional parameter but the
\* first one registered.
PositionalChainRefusedAfterFirst ==
    /\ \A call \in ChainCalls :
           /\ ChainsToPositional(call)
           /\ ErrorOf(call) # "Repeated positional list parameter"
           /\ positionalParams # <<>>
           => PositionalChainRefused(call)
    /\ \A i \in 2..Len(positionalParams) :
           ~positionalParams[i].flag_ /\ positionalParams[i].shortName_ = NUL

\* At most one positional descriptor is a List, at most one is Optional, and
\* a List or Optional one is the last.
PositionalShape ==
    /\ Cardinality({i \in 1..Len(positionalParams) : positionalParams[i].isList}) <= 1
    /\ Cardinality({i \in 1..Len(positionalParams) : positionalParams[i].optional_}) <= 1
    /\ \A i \in 1..(Len(positionalParams) - 1) :
           ~positionalParams[i].isList /\ ~positionalParams[i].optional_

\* C28: whatever registration statements have been issued, refused ones
\* included, at most one positional descriptor is a List, at most one is
\* Optional, and a List or Optional positional descriptor is the last one.
C28_ListOrOptionalPositionalIsLast == PositionalShape

\* What does hold: the registry of the Error-based parser has that shape,
\* and in the fluent parser's no List positional directly follows another.
PositionalShapeByParser ==
    IF impl = "error" THEN PositionalShape
    ELSE \A i \in 1..(Len(positionalParams) - 1) :
             ~(positionalParams[i].isList /\ positionalParams[i + 1].isList)

\* The descriptors of the set have pairwise distinct long names of two
\* characters or more.
LongNamesDistinct(refs) ==
    /\ \A d \in refs : Len(Deref(d).longName_) >= 2
    /\ \A d, e \in refs : d # e => Deref(d).longName_ # Deref(e).longName_

ShortNamed(refs) == {d \in refs : Deref(d).shortName_ # NUL}

ShortNamesDistinct(refs) ==
    \A d, e \in ShortNamed(refs) : d # e => Deref(d).shortName_ # Deref(e).shortName_

\* The printable characters: the codes 33 to 127 that a short name may have.
Printable(c) == CharCode(c) > CharCode(" ") /\ CharCode(c) <= 127

NamedRefs == {d \in AllRefs : d.seq = "named"}

-----------------------------------------------------------------------------
(* Properties of a list on a token it cannot convert                       *)

\* C30: a token that a List parameter cannot convert leaves the list as it
\* is, appending nothing and clearing nothing, so that a list touched by a
\* parse() call holds as many values as tokens were handed to it and
\* converted.
C30_FailedConversionLeavesList ==
    [][DispatchStep /\ IsList(Dispatched.param)
          /\ ~Accepts(Dispatched.param, Dispatched.text)
          => store'[Deref(Dispatched.param).value_] = store[Deref(Dispatched.param).value_]]_vars

\* What does hold: such a token empties a list that this call had not
\* touched, and then appends one element that no conversion has set.
FailedConversionAppends ==
    [][DispatchStep /\ IsList(Dispatched.param)
          /\ ~Accepts(Dispatched.param, Dispatched.text)
          => /\ Len(store'[Deref(Dispatched.param).value_])
                   = 1 + (IF Deref(Dispatched.param).parsed_
                          THEN Len(store[Deref(Dispatched.param).value_]) ELSE 0)
             /\ pc' = "done" /\ error'.param = Dispatched.param]_vars

-----------------------------------------------------------------------------
(* Properties of the integer converter                                     *)

\* The text is an optional sign followed by decimal digits and nothing else,
\* and the number it denotes fits an int.
WholeLiteral(t) ==
    LET signed == t # <<>> /\ t[1] \in {"-", "+"}
        body == IF signed THEN Tail(t) ELSE t
    IN  /\ body # <<>>
        /\ \A k \in 1..Len(body) : IsDigit(body[k])
        /\ ~OutOfRange(body, signed /\ t[1] = "-")

LiteralValue(t) ==
    IF t[1] = "-" THEN -DigitsValue(Tail(t))
    ELSE IF t[1] = "+" THEN DigitsValue(Tail(t))
    ELSE DigitsValue(t)

\* The text without the whitespace it starts with.
AfterBlanks(t) == SubSeq(t, SpaceRunEnd(t, 1), Len(t))

IntStep ==
    impl = "error" /\ DispatchStep /\ Deref(Dispatched.param).conv = "int"

BindsLiteral(t) ==
    /\ store'[Deref(Dispatched.param).value_] = LiteralValue(t)
    /\ error' = NoError
    /\ pc' = "scan"

ThrowsBadValue ==
    /\ pc' = "done"
    /\ error'.msg \in {"Bad argument", "Bad positional argument"}
    /\ error'.param = Dispatched.param
    /\ error'.arg = Dispatched.text

\* C31: a token handed to an int parameter is accepted exactly when the whole
\* token is one integer literal, and then binds the literal's value; any
\* token with characters before or after the number, or with no number,
\* makes parse() throw the bad-value error.
C31_IntAcceptsWholeLiteralOnly ==
    [][IntStep =>
          /\ HandsTokenOver
          /\ IF WholeLiteral(Dispatched.text)
             THEN BindsLiteral(Dispatched.text)
             ELSE ThrowsBadValue]_vars

\* C31 as the code has it: the whitespace a token starts with is skipped, and
\* the token is accepted exactly when what follows is one integer literal.
C31_IntAcceptsLiteralAfterBlanks ==
    [][IntStep =>
          /\ HandsTokenOver
          /\ IF WholeLiteral(AfterBlanks(Dispatched.text))
             THEN BindsLiteral(AfterBlanks(Dispatched.text))
             ELSE ThrowsBadValue]_vars

\* `--nm=-10`, then ` 12`: the named parameter holds -10, the positional 12.
C31_Witness ==
    /\ impl = "error" /\ pc = "scan" /\ Len(argv) = 2
    /\ argv[2] = <<" ", "1", "2">>
    /\ trace[1].how = "assign" /\ trace[1].text = <<"-", "1", "0">>
    /\ store[Deref(trace[1].param).value_] = -10
    /\ trace[2].how = "positional"
    /\ store[Deref(trace[2].param).value_] = 12

-----------------------------------------------------------------------------
(* Properties of the position index                                        *)

BadValueThrown ==
    pc = "done" /\ error.msg \in {"Bad argument", "Bad positional argument"}

\* C32: the k-th registered positional descriptor has index_ k and every
\* named descriptor has index_ 0, so the bad-value diagnostic calls a
\* descriptor positional exactly when it was registered as positional.
C32_PositionIndexIsOneBased ==
    /\ \A k \in 1..Len(positionalParams) : positionalParams[k].index_ = k
    /\ \A k \in 1..Len(namedParams) : namedParams[k].index_ = 0
    /\ BadValueThrown =>
           (error.msg = "Bad positional argument" <=> error.param.seq = "positional")

\* What the two parsers do: the k-th positional descriptor has index_ k - 1,
\* so the first one is told apart from a named descriptor by nothing, and its
\* bad value is reported as that of a named argument.
PositionIndexIsZeroBased ==
    /\ \A k \in 1..Len(positionalParams) : positionalParams[k].index_ = k - 1
    /\ \A k \in 1..Len(namedParams) : namedParams[k].index_ = 0
    /\ BadValueThrown =>
           (error.msg = "Bad positional argument"
                <=> error.param.seq = "positional" /\ error.param.idx > 1)

-----------------------------------------------------------------------------
(* Properties of the name indexes                                          *)

\* The long and short names the caller's registration statements use.
RegLongNames == {call.longName : call \in RegCalls}

RegShortNames == {call.shortName : call \in RegCalls} \ {NUL}

\* The step has appended a named descriptor.
NamedAdded == Len(namedParams') = Len(namedParams) + 1

\* The registration statement of the step has registered a named descriptor.
NamedRegistered == NamedAdded /\ regError' = ""

AddedNamed == namedParams'[Len(namedParams')]

\* C33: from an empty registry on, a registration statement changes what the
\* lookups return only by succeeding with a named descriptor, and then only
\* for that descriptor's long name and short name, which from then on find
\* that descriptor; so a lookup finds a descriptor exactly when a named
\* descriptor of that name was successfully registered.
C33_LookupFindsRegisteredOnly ==
    [][/\ \A name \in RegLongNames :
              MapFind(paramsByLongName', name) =
                  IF NamedRegistered /\ AddedNamed.longName_ = name
                  THEN NamedRef(Len(namedParams'))
                  ELSE MapFind(paramsByLongName, name)
       /\ \A c \in RegShortNames :
              MapFind(paramsByShortName', c) =
                  IF NamedRegistered /\ AddedNamed.shortName_ = c
                  THEN NamedRef(Len(namedParams'))
                  ELSE MapFind(paramsByShortName, c)]_vars

\* What holds in both parsers: the long name of every appended named
\* descriptor is found from then on, whether or not the statement that
\* appended it went on to throw; a short name is found once its statement
\* has succeeded.
LookupFindsAppended ==
    [][/\ \A name \in RegLongNames :
              MapFind(paramsByLongName', name) =
                  IF NamedAdded /\ AddedNamed.longName_ = name
                  THEN NamedRef(Len(namedParams'))
                  ELSE MapFind(paramsByLongName, name)
       /\ \A c \in RegShortNames :
              MapFind(paramsByShortName', c) =
                  IF NamedRegistered /\ AddedNamed.shortName_ = c
                  THEN NamedRef(Len(namedParams'))
                  ELSE MapFind(paramsByShortName, c)]_vars

-----------------------------------------------------------------------------
(* Properties of the help output                                           *)

\* The lines of a text, each without the "\n" that ends it.
RECURSIVE Lines(_)
Lines(text) ==
    IF text = <<>> THEN <<>>
    ELSE IF Find(text, "\n") = 0 THEN <<text>>
    ELSE <<SubSeq(text, 1, Find(text, "\n") - 1)>>
             \o Lines(SubSeq(text, Find(text, "\n") + 1, Len(text)))

\* The caller's stream holds the option table; its rows follow the
\* "Options:" line.
OptionsPrinted == output # <<>> /\ output[1] = "O"

OptionRows(text) == Tail(Lines(text))

\* The number of characters a row has before its help text (no long or
\* short name of the caller has the letter the help text starts with).
HelpColumn(row) == Find(row, "H") - 1

\* The signature the row shows: what stands between the indent and the help
\* text, less the blanks that pad it.
SignatureEnd(row) ==
    CHOOSE k \in 0..HelpColumn(row) :
        /\ k > 0 => row[k] # " "
        /\ \A n \in (k + 1)..HelpColumn(row) : row[n] = " "

PrintedWidth(row) == SignatureEnd(row) - INDENT

\* The descriptor the k-th row is about, with the width counted for it.
CountedWidth(k) ==
    IF k <= Len(namedParams) THEN NamedHelpIndent(namedParams[k])
    ELSE PositionalHelpIndent(positionalParams[k - Len(namedParams)])

\* The row's help text starts one blank after the widest signature shown.
StartsAfterWidest(row, rows) ==
    /\ \A n \in 1..Len(rows) : PrintedWidth(rows[n]) <= HelpColumn(row) - INDENT - 1
    /\ \E n \in 1..Len(rows) : PrintedWidth(rows[n]) = HelpColumn(row) - INDENT - 1

OptionTableAligned(rows) ==
    /\ Len(rows) = Len(namedParams) + Len(positionalParams)
    /\ \A k \in 1..Len(rows) :
           /\ SubSeq(rows[k], 1, INDENT) = Spaces(INDENT)
           /\ PrintedWidth(rows[k]) = CountedWidth(k)
           /\ StartsAfterWidest(rows[k], rows)
           /\ HelpPadding(MaxHelpIndent(Registry), SubSeq(rows[k], 1, SignatureEnd(rows[k]))) >= 0
           /\ HelpPadding(MaxHelpIndent(Registry), SubSeq(rows[k], 1, SignatureEnd(rows[k])))
                  = HelpColumn(rows[k]) - SignatureEnd(rows[k])

\* C34: in the option table every row's help text starts at the same column,
\* the widest signature shown plus the indent of 4 and 1 separating blank;
\* the width counted for a row is the width of the signature the row shows,
\* and the padding computed for a row is never negative.
C34_HelpColumnAligned ==
    OptionsPrinted => OptionTableAligned(OptionRows(output))

\* An option table of four rows, for named and positional descriptors, whose
\* signatures have three different widths or more.
C34_Witness ==
    /\ OptionsPrinted
    /\ Len(namedParams) = 2 /\ Len(positionalParams) = 2
    /\ Len(OptionRows(output)) = 4
    /\ Cardinality({PrintedWidth(OptionRows(output)[k]) : k \in 1..4}) >= 3
    /\ Cardinality({HelpColumn(OptionRows(output)[k]) : k \in 1..4}) = 1

\* The caller's stream holds the synopsis.
UsagePrinted == output # <<>> /\ output[1] = "U"

\* The total length of the first k texts.
RECURSIVE LenUpTo(_, _)
LenUpTo(texts, k) == IF k = 0 THEN 0 ELSE LenUpTo(texts, k - 1) + Len(texts[k])

\* What the lines of the synopsis hold after "Usage: <exeName>" on the
\* first and after the indent on the others.
UsageBodies(lines) ==
    [i \in 1..Len(lines) |-> SubSeq(lines[i], UsageIndent(exeName_) + 1, Len(lines[i]))]

\* The line the k-th rendering stands on.
LineOf(k, strings, bodies) ==
    CHOOSE i \in 1..Len(bodies) :
        LenUpTo(bodies, i - 1) < LenUpTo(strings, k) /\ LenUpTo(strings, k) <= LenUpTo(bodies, i)

\* The k-th rendering is the first of its line.
StartsLine(k, strings, bodies) ==
    LenUpTo(strings, k - 1) = LenUpTo(bodies, LineOf(k, strings, bodies) - 1)

\* The width of the k-th rendering's line up to that rendering, inclusive.
WidthThrough(k, strings, bodies) ==
    UsageIndent(exeName_) + LenUpTo(strings, k)
        - LenUpTo(bodies, LineOf(k, strings, bodies) - 1)

\* The lines hold the renderings in order, and a rendering starts a new line
\* exactly when the line before, with it appended, would be wider than 80.
WrapsAtMaxWidth(lines, strings) ==
    /\ lines # <<>>
    /\ SubSeq(lines[1], 1, UsageIndent(exeName_)) = UsagePrefix(exeName_)
    /\ Flatten(UsageBodies(lines)) = Flatten(strings)
    /\ \A k \in 1..Len(strings) :
           IF StartsLine(k, strings, UsageBodies(lines)) /\ LineOf(k, strings, UsageBodies(lines)) > 1
           THEN Len(lines[LineOf(k, strings, UsageBodies(lines)) - 1]) + Len(strings[k]) > MAX_WIDTH
           ELSE WidthThrough(k, strings, UsageBodies(lines)) <= MAX_WIDTH

\* Every line after the first starts with as many blanks as "Usage: <exeName>"
\* is wide, and on every line the first parameter starts one blank further.
ContinuationsAligned(lines) ==
    \A i \in 1..Len(lines) :
        /\ i > 1 => SubSeq(lines[i], 1, UsageIndent(exeName_)) = Spaces(UsageIndent(exeName_))
        /\ Len(lines[i]) > UsageIndent(exeName_) =>
               /\ lines[i][UsageIndent(exeName_) + 1] = " "
               /\ lines[i][UsageIndent(exeName_) + 2] # " "
        /\ i > 1 => Len(lines[i]) > UsageIndent(exeName_)

\* The width printUsage tracks after k renderings is that of the line it is on.
WidthTracked ==
    \A k \in 0..Len(UsageStrings(Registry)) :
        LET written == Lines(UsagePrefix(exeName_) \o UsageAfter(Registry, exeName_, k).output)
        IN  UsageAfter(Registry, exeName_, k).width = Len(written[Len(written)])

\* C35: the synopsis wraps at 80 columns: a parameter rendering starts a new
\* line exactly when appending it to the current line would exceed 80
\* columns, the width printUsage tracks is always the width of the current
\* line, and every continuation line is indented by the width of
\* "Usage: <exeName>", its first parameter under the first one of line 1.
C35_UsageWrapsAtEighty ==
    UsagePrinted =>
        /\ output[Len(output)] = "\n"
        /\ WrapsAtMaxWidth(Lines(output), UsageStrings(Registry))
        /\ ContinuationsAligned(Lines(output))
        /\ WidthTracked

\* A synopsis whose first line is exactly 80 columns wide and which goes on
\* on a second line.
C35_Witness ==
    /\ UsagePrinted
    /\ Len(Lines(output)) = 2
    /\ Len(Lines(output)[1]) = MAX_WIDTH
    /\ Len(Lines(output)[2]) > UsageIndent(exeName_)

-----------------------------------------------------------------------------
(* Properties of a failed registration                                     *)

\* The registration statement of the step has thrown.
RegistrationFailed == pc = "idle" /\ pc' = "idle" /\ regError' # ""

\* Every statement the registry would have taken before the step it takes
\* after it.
StillRegisters ==
    \A call \in AnyCalls :
        Register(impl, Registry, call).err = "" => Register(impl, Registry', call).err = ""

\* C36: a registration statement that fails leaves the registry as it was
\* (no descriptor is added to either sequence, neither index changes), so a
\* statement that the registry would have taken before the failure, one
\* that reuses the rejected long or short name among them, it still takes.
C36_FailedRegistrationLeavesRegistry ==
    [][RegistrationFailed => UNCHANGED registryVars /\ StillRegisters]_vars

\* What holds: the Error-based parser leaves the registry as it was; the
\* fluent parser has appended the descriptor and entered its long name
\* whenever the failure comes from the chained shortName().
FailedRegistrationByParser ==
    [][RegistrationFailed =>
          IF impl = "error"
             \/ regError' \notin {"Bad short name for parameter", "Repeated short name parameter",
                                  "Short name for positional parameter", NullParserCall,
                                  "Flag positional parameter"}
          THEN UNCHANGED registryVars /\ StillRegisters
          ELSE /\ Len(namedParams') + Len(positionalParams')
                      = Len(namedParams) + Len(positionalParams) + 1
               /\ paramsByShortName' = paramsByShortName]_vars

-----------------------------------------------------------------------------
(* Properties of a Scalar named again                                      *)

\* The step hands its token, or the synthetic value of a flag, to d.
DispatchedTo(d) ==
    Dispatched.how \in {"value", "assign", "flag", "positional"} /\ Dispatched.param = d

\* The step handles its token as a positional one: it goes to the next
\* positional descriptor, or parse() throws because there is none.
AsPositionalToken ==
    IF currentPositionalPos < Len(positionalParams)
    THEN /\ Dispatched.how = "positional"
         /\ Dispatched.param = PositionalRef(currentPositionalPos + 1)
         /\ Dispatched.text = Token
    ELSE pc' = "done" /\ error'.msg = "Unexpected argument" /\ store' = store

\* C37: in one parse() of the Error-based parser the storage of a Scalar
\* descriptor is written at most once: a descriptor a token is handed to is
\* marked as parsed, and a parsed Scalar is never handed a token nor awaited
\* again and keeps its value; a token that names it is handled as a
\* positional token.
C37_ScalarWrittenOnce ==
    [][impl = "error" /\ TokenStep =>
          \A d \in AllRefs :
              /\ DispatchedTo(d) => ParsedAfter(d)
              /\ ~IsList(d) /\ Deref(d).parsed_ =>
                     /\ Dispatched.param # d
                     /\ store'[Deref(d).value_] = store[Deref(d).value_]
                     /\ Scanning /\ d \in Named(Token) => AsPositionalToken]_vars

\* `--nm=a=b -n`: the second token names the parameter that holds `a=b`
\* and has gone to the first positional parameter as the text `-n`.
C37_Witness ==
    /\ impl = "error" /\ pc = "scan" /\ Len(argv) = 2
    /\ trace[1].how = "assign" /\ trace[1].param.seq = "named"
    /\ argv[2] = <<"-", "n">>
    /\ NamedRef(trace[1].param.idx) \in
           {NamedRef(i) : i \in {j \in 1..Len(namedParams) : namedParams[j].shortName_ = "n"}}
    /\ store[Deref(trace[1].param).value_] = <<"a", "=", "b">>
    /\ trace[2].how = "positional"
    /\ <<"-", "n">> \in {store[Deref(trace[2].param).value_]}
                           \cup {store[Deref(trace[2].param).value_][k] :
                                    k \in 1..(IF Deref(trace[2].param).isList
                                              THEN Len(store[Deref(trace[2].param).value_])
                                              ELSE 0)}

-----------------------------------------------------------------------------
(* Properties of running parse() again on the same command line            *)

\* parse() run again on the command line of the call that has just ended,
\* from what that call left in the caller's variables.
RunAgain(junk) == ParseWith(argv, store, junk)

\* C38: parse() is idempotent: run again with the same tokens on the same
\* registry it ends as the first run did, in success or with the same error,
\* and leaves every variable as the first run left it.
C38_ParseIdempotent ==
    pc = "done" =>
        \A junk \in JunkChoices :
            /\ RunAgain(junk).error = error
            /\ RunAgain(junk).store = store

\* What holds: the second run ends as the first did, and it leaves the
\* variables as they were unless it fails on a token handed to a List, whose
\* last element is then whatever the uninitialised local of the second run
\* holds.
SecondRunEndsAlike ==
    pc = "done" =>
        \A junk \in JunkChoices :
            /\ RunAgain(junk).error = error
            /\ \/ RunAgain(junk).store = store
               \/ /\ error.msg \in {"Bad argument", "Bad positional argument"}
                  /\ IsList(error.param)
                  /\ \A v \in CallerVars \ {Deref(error.param).value_} :
                         RunAgain(junk).store[v] = store[v]
                  /\ Len(RunAgain(junk).store[Deref(error.param).value_])
                         = Len(store[Deref(error.param).value_])


-----------------------------------------------------------------------------
\* Properties of the error a failing parse() reports.

\* The argv loop alone, run over args from machine m: it ends at the first
\* token that throws.
RECURSIVE Scanned(_, _)
Scanned(m, args) ==
    IF m.pc = "done" \/ args = <<>> THEN m
    ELSE Scanned(Step(m, Head(args)), Tail(args))

\* The argv loop after the first k tokens of this call.
ScanOf(k) == Scanned(Started(heldAtCall), SubSeq(argv, 1, k))

\* parse() threw from the argv loop or from the loops after it.
FailedInOrAfterScan ==
    /\ pc = "done"
    /\ error # NoError
    /\ error.msg # "Optional positional parameter followed by non-optional"

UnmetNamed ==
    {i \in 1..Len(namedParams) : ~namedParams[i].optional_ /\ ~Matched(NamedRef(i))}

UnmetPositional ==
    {i \in 1..Len(positionalParams) :
        ~positionalParams[i].optional_ /\ ~Matched(PositionalRef(i))}

\* C39: a parse() that fails in or after the argv loop reports one error, the
\* first in this order: the error of the first token that throws, tokens
\* taken left to right (no token before it threw, it is the last token
\* consumed, and the caller's variables are as that token left them); else
\* the first required named parameter, in registration order, that no token
\* was handed to; else the first such positional parameter.  A missing
\* parameter is thus reported only when no token threw.
C39_FirstErrorInFixedOrder ==
    FailedInOrAfterScan =>
        /\ Len(trace) = Len(argv)
        /\ \A k \in 0..(Len(argv) - 1) : ScanOf(k).error = NoError
        /\ IF ScanOf(Len(argv)).error # NoError
           THEN /\ error = ScanOf(Len(argv)).error
                /\ store = ScanOf(Len(argv)).store
                /\ error.msg \notin {"Missing argument", "Missing positional argument"}
           ELSE IF UnmetNamed # {}
           THEN error = Thrown("Missing argument", NamedRef(SetMin(UnmetNamed)), <<>>)
           ELSE /\ UnmetPositional # {}
                /\ error = Thrown("Missing positional argument",
                                  PositionalRef(SetMin(UnmetPositional)), <<>>)

\* Two required named parameters and a required positional one are all
\* unmet after two tokens that did not throw: the named parameter
\* registered first is the one reported.
C39_Witness ==
    /\ FailedInOrAfterScan
    /\ Len(argv) = 2
    /\ Cardinality(UnmetNamed) = 2
    /\ UnmetPositional # {}
    /\ error.msg = "Missing argument"

\* A token throws after one that was bound, with a required positional
\* parameter still unmet: the token's error is the one reported.
TokenErrorReportedFirst ==
    /\ FailedInOrAfterScan
    /\ Len(argv) >= 2
    /\ UnmetPositional # {}
    /\ error.msg \notin {"Missing argument", "Missing positional argument"}

=============================================================================
